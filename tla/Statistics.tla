----------------------------- MODULE Statistics -----------------------------
(***************************************************************************)
(* The statistics of infrastructure/components/statistics: every worker    *)
(* process publishes its own as jobs of a queue in Redis, some worker      *)
(* completes each job without doing anything, and every worker that hears  *)
(* of the completion fetches the job and lists what it carries.  Without   *)
(* Redis a worker lists itself.  Workers die at any moment and the whole   *)
(* application is restarted, while the jobs stay in Redis.                 *)
(*                                                                         *)
(* Time passes in ticks; the age of an entry is kept instead of its time,  *)
(* up to the first age that counts as stalled.                             *)
(***************************************************************************)
EXTENDS Integers, Sequences, FiniteSets

CONSTANTS Procs,        \* worker processes, each of which lives once
          Jobs,         \* room for jobs
          Stalled,      \* JOB_STALLED_PERIOD, and removeOnComplete.age
          MaxRestarts   \* bound on restarts of the application

ASSUME StatisticsAssumption ==
    /\ Procs # {} /\ Jobs # {}
    /\ Stalled \in Nat \ {0}
    /\ MaxRestarts \in Nat

VARIABLES
    bull,      \* is Redis enabled, and with it the queue?
    run,       \* number of restarts so far: which master is running
    proc,      \* the processes: how far they are, and the run they belong to
    list,      \* statsList of each process: the age of each entry, or None
    job        \* the jobs, and what the processes have to do about them

vars == <<bull, run, proc, list, job>>

None == -1
Ages == 0 .. Stalled + 1
Older(a) == IF a = None \/ a = Stalled + 1 THEN a ELSE a + 1

Alive(p) == proc[p].state \in {"constructed", "started"}
Started(p) == proc[p].state = "started"

\* A job: its sender, the process that took it, its age and the time since
\* it was completed; early: the processes that had not been started when it
\* was sent; told: those to which the event of its completion is on its way;
\* held: those that have fetched it and not looked at it.
NoJob == [state |-> "none", from |-> {}, by |-> {}, age |-> 0, done |-> None,
          early |-> {}, told |-> {}, held |-> {}]

Sender(j) == CHOOSE p \in Procs : job[j].from = {p}

\* A job nobody will read again is left out.
Kept(jb) == IF jb.state \in {"completed", "removed"} /\ jb.told \cup jb.held = {}
            THEN NoJob ELSE jb

Init ==
    /\ bull \in BOOLEAN
    /\ run = 0
    /\ proc = [p \in Procs |-> [state |-> "unborn", run |-> 0]]
    /\ list = [p \in Procs |-> [q \in Procs |-> None]]
    /\ job = [j \in Jobs |-> NoJob]

-----------------------------------------------------------------------------
\* A worker constructs the service, and later gets WorkerStarted with the
\* startup time of the master: the list is cleared and its own entry made.

Construct(p) ==
    /\ proc[p].state = "unborn"
    /\ proc' = [proc EXCEPT ![p] = [@ EXCEPT !.state = "constructed", !.run = run]]
    /\ UNCHANGED <<bull, run, list, job>>

HandleWorkerStarted(p) ==
    /\ proc[p].state = "constructed"
    /\ proc' = [proc EXCEPT ![p].state = "started"]
    /\ list' = [list EXCEPT ![p] = [q \in Procs |-> IF q = p THEN 0 ELSE None]]
    /\ UNCHANGED <<bull, run, job>>

\* The task intervals_sync_stats: without Redis it lists the worker, with
\* Redis it adds a job.
UpdateStats(p) ==
    /\ ~ bull /\ Alive(p)
    /\ list' = [list EXCEPT ![p][p] = 0]
    /\ UNCHANGED <<bull, run, proc, job>>

Publish(p) ==
    /\ bull /\ Alive(p)
    /\ \E j \in Jobs :
         /\ job[j] = NoJob
         /\ job' = [job EXCEPT ![j] =
                      [NoJob EXCEPT !.state = "waiting", !.from = {p},
                                    !.early = {q \in Procs : proc[q].state = "constructed"}]]
    /\ UNCHANGED <<bull, run, proc, list>>

-----------------------------------------------------------------------------
\* The queue.  A worker takes a job and completes it; the event goes to every
\* worker.

Take(p) ==
    /\ Alive(p)
    /\ \E j \in Jobs :
         /\ job[j].state = "waiting"
         /\ job' = [job EXCEPT ![j].state = "active", ![j].by = {p}]
    /\ UNCHANGED <<bull, run, proc, list>>

Process(p) ==
    /\ \E j \in Jobs :
         /\ job[j].state = "active" /\ job[j].by = {p}
         /\ job' = [job EXCEPT ![j] =
                      Kept([@ EXCEPT !.state = "completed", !.by = {}, !.done = 0,
                                     !.told = {q \in Procs : Alive(q)}])]
    /\ UNCHANGED <<bull, run, proc, list>>

\* A job completed long enough ago is removed, when the next one completes.
Remove(j) ==
    /\ job[j].state = "completed" /\ job[j].done >= Stalled
    /\ job' = [job EXCEPT ![j].state = "removed"]
    /\ UNCHANGED <<bull, run, proc, list>>

\* Fault: a job that was taken stays with its process.
OrphanedNever(jb, dead, fails) == Kept([jb EXCEPT !.told = @ \ dead, !.held = @ \ dead])

\* What becomes of a job when processes die: one they had taken is taken
\* again, or fails and is removed, and what they had to read is not read.
Orphaned(jb, dead, fails) ==
    IF jb.state = "active" /\ jb.by \subseteq dead
    THEN IF fails THEN NoJob ELSE [jb EXCEPT !.state = "waiting", !.by = {}]
    ELSE Kept([jb EXCEPT !.told = @ \ dead, !.held = @ \ dead])

-----------------------------------------------------------------------------
\* StatsEvents.onCompleted().

\* getJob() reads the job.  One that was removed is null, and reading that is
\* an error nobody catches: the process goes on and exits ten seconds later,
\* which Die allows at any time.
GetJob(p) ==
    /\ Alive(p)
    /\ \E j \in Jobs :
         /\ p \in job[j].told
         /\ job' = [job EXCEPT ![j] =
                      IF job[j].state = "completed"
                      THEN [job[j] EXCEPT !.told = @ \ {p}, !.held = @ \cup {p}]
                      ELSE Kept([job[j] EXCEPT !.told = @ \ {p}])]
    /\ UNCHANGED <<bull, run, proc, list>>

\* Fault: the time the job was sent is not looked at.
AcceptedAlways(p, j) == TRUE

\* sentTime >= startupTime: of the master once p knows it, until then of p.
Accepted(p, j) ==
    IF Started(p) THEN proc[Sender(j)].run = proc[p].run ELSE p \in job[j].early

\* Fault: what has stalled stays.
AddStatsOnly(l, q, age) == [l EXCEPT ![q] = age]

\* Fault: the comparison is the wrong way round.
AddStatsReversed(l, q, age) ==
    LET set == [l EXCEPT ![q] = age]
    IN  [r \in Procs |-> IF set[r] < Stalled THEN None ELSE set[r]]

\* The entry is set, and then every entry that has stalled is dropped.
AddStats(l, q, age) ==
    LET set == [l EXCEPT ![q] = age]
    IN  [r \in Procs |-> IF set[r] > Stalled THEN None ELSE set[r]]

OnCompleted(p) ==
    /\ Alive(p)
    /\ \E j \in Jobs :
         /\ p \in job[j].held
         /\ list' = IF Accepted(p, j)
                    THEN [list EXCEPT ![p] = AddStats(@, Sender(j), job[j].age)]
                    ELSE list
         /\ job' = [job EXCEPT ![j] = Kept([job[j] EXCEPT !.held = @ \ {p}])]
    /\ UNCHANGED <<bull, run, proc>>

-----------------------------------------------------------------------------
\* Processes die, and with them what they knew and had to do.
Dying(dead) ==
    /\ proc' = [p \in Procs |-> IF p \in dead THEN [proc[p] EXCEPT !.state = "dead"] ELSE proc[p]]
    /\ list' = [p \in Procs |-> IF p \in dead THEN [q \in Procs |-> None] ELSE list[p]]
    /\ \E fails \in BOOLEAN : job' = [j \in Jobs |-> Orphaned(job[j], dead, fails)]

Die(p) ==
    /\ Alive(p)
    /\ Dying({p})
    /\ UNCHANGED <<bull, run>>

\* The application is started again.  The jobs are still in Redis.
Restart ==
    /\ run < MaxRestarts
    /\ run' = run + 1
    /\ Dying({p \in Procs : proc[p].state # "unborn"})
    /\ UNCHANGED bull

Tick ==
    /\ list' = [p \in Procs |-> [q \in Procs |-> Older(list[p][q])]]
    /\ job' = [j \in Jobs |-> IF job[j] = NoJob THEN NoJob
                              ELSE [job[j] EXCEPT !.age = Older(@), !.done = Older(@)]]
    /\ UNCHANGED <<bull, run, proc>>

Worker(p) ==
    \/ HandleWorkerStarted(p) \/ UpdateStats(p) \/ Publish(p)
    \/ Take(p) \/ Process(p) \/ GetJob(p) \/ OnCompleted(p)

Next == (\E p \in Procs : Worker(p) \/ Construct(p) \/ Die(p))
        \/ (\E j \in Jobs : Remove(j)) \/ Restart \/ Tick

Spec == Init /\ [][Next]_vars

\* A worker that lives goes on with what it has to do, its interval fires
\* again and again, and time passes.  Publishing is strongly fair because the
\* room for jobs is a bound of the model that others may have filled.
FairSpec ==
    /\ Spec
    /\ WF_vars(Tick)
    /\ \A p \in Procs : /\ WF_vars(HandleWorkerStarted(p))
                        /\ WF_vars(UpdateStats(p))
                        /\ SF_vars(Publish(p))
                        /\ WF_vars(Take(p))
                        /\ WF_vars(Process(p))
                        /\ WF_vars(GetJob(p))
                        /\ WF_vars(OnCompleted(p))

-----------------------------------------------------------------------------
\* The types of the state; what is on its way to a process is a job it can
\* find or one that was removed.  (stats-bull.service.ts, stats.consumer.ts)
TypeOK ==
    /\ bull \in BOOLEAN
    /\ run \in 0 .. MaxRestarts
    /\ proc \in [Procs -> [state : {"unborn", "constructed", "started", "dead"},
                           run : 0 .. MaxRestarts]]
    /\ list \in [Procs -> [Procs -> Ages \cup {None}]]
    /\ \A j \in Jobs :
         /\ job[j].state \in {"none", "waiting", "active", "completed", "removed"}
         /\ job[j].told \cap job[j].held = {}
         /\ job[j].state = "active" =>
              \E p \in Procs : job[j].by = {p} /\ Alive(p)
         /\ job[j].state = "completed" => job[j].done <= job[j].age
    /\ ~ bull => \A j \in Jobs : job[j] = NoJob

\* A worker that has been told when the master started lists no process of an
\* earlier run, although its jobs are still completed in the same queue.
\* (stats.consumer.ts:25-28)
ThisRunOnly ==
    \A p, q \in Procs : Started(p) /\ list[p][q] # None => proc[q].run = proc[p].run

\* Every worker reads a job before it is removed; one that does not, exits.
NoneMissed == \A j \in Jobs : job[j].state # "removed"

\* A worker that has died is forgotten by every worker that goes on, however
\* late its last jobs are completed.  (stats-bull.service.ts:166-186)
ForgetsDead ==
    []NoneMissed =>
      \A p \in Procs : \A q \in Procs \ {p} :
        proc[q].state = "dead" ~> (~ Started(p) \/ list[p][q] = None)

\* Every job is completed and heard of before it counts as stalled.
Prompt == \A j \in Jobs : job[j].age <= Stalled

\* As long as jobs do not stall and are read, two workers of one run that go
\* on come to know each other.  (stats.consumer.ts:22-30)
WorkersListed ==
    [](Prompt /\ NoneMissed) =>
      \A p \in Procs : \A q \in Procs \ {p} :
        (bull /\ Started(p) /\ Started(q)) ~>
          (list[p][q] # None \/ ~ Started(p) \/ ~ Started(q))
=============================================================================
