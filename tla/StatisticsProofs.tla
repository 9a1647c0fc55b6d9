-------------------------- MODULE StatisticsProofs --------------------------
(***************************************************************************)
(* Theorems about the lists of workers, for any numbers of processes, jobs *)
(* and restarts: no worker lists a process of an earlier run.              *)
(***************************************************************************)
EXTENDS Statistics, TLAPS

-----------------------------------------------------------------------------
\* The inductive invariant.

JobType == [state : {"none", "waiting", "active", "completed", "removed"},
            from : SUBSET Procs, by : SUBSET Procs, age : Ages, done : Ages \cup {None},
            early : SUBSET Procs, told : SUBSET Procs, held : SUBSET Procs]

\* A job has one sender, a process that was born, and nobody has anything to
\* read before it is completed.
Good(jb) ==
    /\ jb \in JobType
    /\ jb.state = "none" => jb = NoJob
    /\ jb.state # "none" =>
         bull /\ \E p \in Procs : jb.from = {p} /\ proc[p].state # "unborn"
    /\ jb.state \in {"waiting", "active"} => jb.told = {} /\ jb.held = {}
    /\ jb.told \cap jb.held = {}
    /\ jb.state = "active" => \E p \in Procs : jb.by = {p} /\ Alive(p)
    /\ jb.state = "completed" => jb.done <= jb.age

JobsGood == job \in [Jobs -> JobType] /\ \A j \in Jobs : Good(job[j])

\* Whoever lives belongs to the run that goes on.
Current == \A p \in Procs : Alive(p) => proc[p].run = run

ProcsGood ==
    /\ bull \in BOOLEAN
    /\ run \in 0 .. MaxRestarts
    /\ proc \in [Procs -> [state : {"unborn", "constructed", "started", "dead"},
                           run : 0 .. MaxRestarts]]
    /\ Current

\* A list names processes that were born.
Listed == \A p, q \in Procs : list[p][q] # None => proc[q].state # "unborn"

ListsGood == list \in [Procs -> [Procs -> Ages \cup {None}]] /\ Listed /\ ThisRunOnly

IInv == ProcsGood /\ JobsGood /\ ListsGood

-----------------------------------------------------------------------------
\* Facts about the helpers of the module.

LEMMA OlderIs ==
  ASSUME NEW a \in Ages \cup {None}
  PROVE  /\ Older(a) \in Ages \cup {None}
         /\ a \in Ages => Older(a) \in Ages
         /\ Older(a) # None => a # None
         /\ \A b \in Ages : a <= b => Older(a) <= Older(b)
BY StatisticsAssumption DEF Older, Ages

LEMMA NoJobGood == Good(NoJob)
BY StatisticsAssumption DEF Good, NoJob, JobType, Ages

LEMMA KeptGood ==
  ASSUME NEW jb, Good(jb)
  PROVE  Good(Kept(jb))
BY NoJobGood DEF Kept

\* The sender of a job that is not NoJob was born.
LEMMA SenderBorn ==
  ASSUME JobsGood, NEW j \in Jobs, job[j].state # "none"
  PROVE  Sender(j) \in Procs /\ proc[Sender(j)].state # "unborn"
BY DEF JobsGood, Good, Sender

\* A step that leaves the processes alone and puts a good job in one place
\* keeps the jobs good.
LEMMA OneJob ==
  ASSUME JobsGood, NEW j \in Jobs, NEW jb, Good(jb),
         job' = [job EXCEPT ![j] = jb], UNCHANGED <<bull, proc>>
  PROVE  JobsGood'
<1>1. jb \in JobType
  BY DEF Good
<1>2. job' \in [Jobs -> JobType]
  BY <1>1 DEF JobsGood
<1>3. \A i \in Jobs : Good(job'[i])
  BY DEF JobsGood
<1>4. \A i \in Jobs : Good(job[i])'
  BY <1>3 DEF Good, Alive
<1> QED
  BY <1>2, <1>4 DEF JobsGood

\* The lists depend on the jobs through nothing.
LEMMA ListsStay ==
  ASSUME ListsGood, UNCHANGED <<proc, list>>
  PROVE  ListsGood'
BY DEF ListsGood, Listed, ThisRunOnly, Started

LEMMA ProcsStay ==
  ASSUME ProcsGood, UNCHANGED <<bull, run, proc>>
  PROVE  ProcsGood'
BY DEF ProcsGood, Current, Alive

-----------------------------------------------------------------------------
LEMMA InitIInv == Init => IInv
<1> SUFFICES ASSUME Init PROVE IInv
  OBVIOUS
<1>1. ProcsGood
  BY StatisticsAssumption DEF Init, ProcsGood, Current
<1>2. JobsGood
  BY NoJobGood DEF Init, JobsGood, Good
<1>3. ListsGood
  BY DEF Init, ListsGood, Listed, ThisRunOnly
<1> QED
  BY <1>1, <1>2, <1>3 DEF IInv

LEMMA ConstructKeeps ==
  ASSUME IInv, NEW p \in Procs, Construct(p)
  PROVE  IInv'
<1> USE DEF IInv, Construct
<1>1. ProcsGood'
  BY DEF ProcsGood, Current, Alive
<1>2. \A q \in Procs : /\ proc[q].state # "unborn" => proc'[q] = proc[q]
                       /\ proc'[q].state = "started" => proc'[q] = proc[q]
  OBVIOUS
<1>3. JobsGood'
  BY DEF JobsGood, Good, Alive
<1>4. ListsGood'
  BY DEF ListsGood, Listed, ThisRunOnly, Started
<1> QED
  BY <1>1, <1>3, <1>4

LEMMA HandleWorkerStartedKeeps ==
  ASSUME IInv, NEW p \in Procs, HandleWorkerStarted(p)
  PROVE  IInv'
<1> USE DEF IInv, HandleWorkerStarted
<1>1. ProcsGood'
  BY DEF ProcsGood, Current, Alive
<1>2. \A q \in Procs : /\ proc'[q].run = proc[q].run
                       /\ proc'[q].state = "unborn" <=> proc[q].state = "unborn"
                       /\ proc[q].state \in {"constructed", "started"} =>
                            proc'[q].state \in {"constructed", "started"}
                       /\ q # p => proc'[q] = proc[q]
  OBVIOUS
<1>3. JobsGood'
  BY DEF JobsGood, Good, Alive
<1>4. list' \in [Procs -> [Procs -> Ages \cup {None}]]
  BY StatisticsAssumption DEF ListsGood, Ages
<1>5. \A q, r \in Procs : list'[q][r] = IF q = p THEN IF r = p THEN 0 ELSE None ELSE list[q][r]
  BY DEF ListsGood
<1>6. Listed' /\ ThisRunOnly'
  BY DEF ListsGood, Listed, ThisRunOnly, Started
<1> QED
  BY <1>1, <1>3, <1>4, <1>6 DEF ListsGood

LEMMA UpdateStatsKeeps ==
  ASSUME IInv, NEW p \in Procs, UpdateStats(p)
  PROVE  IInv'
<1> USE DEF IInv, UpdateStats
<1>1. ProcsGood'
  BY ProcsStay
<1>2. JobsGood'
  BY DEF JobsGood, Good
<1>3. list' \in [Procs -> [Procs -> Ages \cup {None}]]
  BY StatisticsAssumption DEF ListsGood, Ages
<1>4. \A q, r \in Procs : list'[q][r] = IF q = p /\ r = p THEN 0 ELSE list[q][r]
  BY DEF ListsGood
<1>5. Listed' /\ ThisRunOnly'
  BY DEF ListsGood, Listed, ThisRunOnly, Started, Alive
<1> QED
  BY <1>1, <1>2, <1>3, <1>5 DEF ListsGood

\* The steps of one job.
LEMMA OneJobKeeps ==
  ASSUME IInv, NEW j \in Jobs, NEW jb, Good(jb),
         job' = [job EXCEPT ![j] = jb], UNCHANGED <<bull, run, proc, list>>
  PROVE  IInv'
BY OneJob, ProcsStay, ListsStay DEF IInv

LEMMA PublishKeeps ==
  ASSUME IInv, NEW p \in Procs, Publish(p)
  PROVE  IInv'
<1>1. PICK j \in Jobs : job' = [job EXCEPT ![j] =
          [NoJob EXCEPT !.state = "waiting", !.from = {p},
                        !.early = {q \in Procs : proc[q].state = "constructed"}]]
  BY DEF Publish
<1> DEFINE early == {q \in Procs : proc[q].state = "constructed"}
           jb == [NoJob EXCEPT !.state = "waiting", !.from = {p}, !.early = early]
<1>2. early \in SUBSET Procs
  OBVIOUS
<1>3. NoJob \in JobType /\ NoJob.told = {} /\ NoJob.held = {}
  BY NoJobGood DEF Good, NoJob
<1> HIDE DEF early
<1>4. jb \in JobType
  BY <1>2, <1>3 DEF JobType
<1>5. jb.state = "waiting" /\ jb.from = {p} /\ jb.told = {} /\ jb.held = {}
  BY <1>3
<1>6. Good(jb)
  BY <1>4, <1>5 DEF Publish, Good, Alive
<1> QED
  BY <1>6, OneJobKeeps DEF Publish, early

LEMMA TakeKeeps ==
  ASSUME IInv, NEW p \in Procs, Take(p)
  PROVE  IInv'
<1>1. PICK j \in Jobs : /\ job[j].state = "waiting"
                        /\ job' = [job EXCEPT ![j].state = "active", ![j].by = {p}]
  BY DEF Take
<1>2. Good(job[j])
  BY DEF IInv, JobsGood
<1>3. Good([job[j] EXCEPT !.state = "active", !.by = {p}])
  BY <1>1, <1>2 DEF Take, Good, JobType
<1>4. job' = [job EXCEPT ![j] = [job[j] EXCEPT !.state = "active", !.by = {p}]]
  BY <1>1
<1> QED
  BY <1>3, <1>4, OneJobKeeps DEF Take

LEMMA ProcessKeeps ==
  ASSUME IInv, NEW p \in Procs, Process(p)
  PROVE  IInv'
<1>1. PICK j \in Jobs :
         /\ job[j].state = "active"
         /\ job' = [job EXCEPT ![j] =
                      Kept([@ EXCEPT !.state = "completed", !.by = {}, !.done = 0,
                                     !.told = {q \in Procs : Alive(q)}])]
  BY DEF Process
<1> DEFINE jb == [job[j] EXCEPT !.state = "completed", !.by = {}, !.done = 0,
                                !.told = {q \in Procs : Alive(q)}]
<1>2. Good(job[j])
  BY DEF IInv, JobsGood
<1>3. Good(jb)
  <2> DEFINE alive == {q \in Procs : Alive(q)}
  <2>1. alive \in SUBSET Procs
    OBVIOUS
  <2>2. 0 \in Ages /\ \A a \in Ages : 0 <= a
    BY StatisticsAssumption DEF Ages
  <2> HIDE DEF alive
  <2>3. jb = [job[j] EXCEPT !.state = "completed", !.by = {}, !.done = 0, !.told = alive]
    BY DEF alive
  <2> QED
    BY <1>1, <1>2, <2>2 DEF Good, JobType
<1>4. Good(Kept(jb))
  BY <1>3, KeptGood
<1>5. job' = [job EXCEPT ![j] = Kept(jb)]
  BY <1>1
<1> HIDE DEF jb
<1> QED
  BY <1>4, <1>5, OneJobKeeps DEF Process

LEMMA RemoveKeeps ==
  ASSUME IInv, NEW j \in Jobs, Remove(j)
  PROVE  IInv'
<1>1. Good(job[j])
  BY DEF IInv, JobsGood
<1>2. Good([job[j] EXCEPT !.state = "removed"])
  BY <1>1 DEF Remove, Good, JobType
<1>3. job' = [job EXCEPT ![j] = [job[j] EXCEPT !.state = "removed"]]
  BY DEF Remove
<1> QED
  BY <1>2, OneJobKeeps DEF Remove

LEMMA GetJobKeeps ==
  ASSUME IInv, NEW p \in Procs, GetJob(p)
  PROVE  IInv'
<1>1. PICK j \in Jobs :
         /\ p \in job[j].told
         /\ job' = [job EXCEPT ![j] =
                      IF job[j].state = "completed"
                      THEN [job[j] EXCEPT !.told = @ \ {p}, !.held = @ \cup {p}]
                      ELSE Kept([job[j] EXCEPT !.told = @ \ {p}])]
  BY DEF GetJob
<1> DEFINE fetched == [job[j] EXCEPT !.told = @ \ {p}, !.held = @ \cup {p}]
           missed == [job[j] EXCEPT !.told = @ \ {p}]
           jb == IF job[j].state = "completed" THEN fetched ELSE Kept(missed)
<1>2. Good(job[j])
  BY DEF IInv, JobsGood
<1>3. job[j].state = "completed" => Good(fetched)
  BY <1>2 DEF Good, JobType
<1>4. job[j].state # "completed" => Good(missed)
  BY <1>2 DEF Good, JobType, NoJob
<1>5. Good(jb)
  BY <1>3, <1>4, KeptGood
<1>6. job' = [job EXCEPT ![j] = jb]
  BY <1>1
<1> HIDE DEF jb
<1> QED
  BY <1>5, <1>6, OneJobKeeps DEF GetJob

-----------------------------------------------------------------------------
\* The entry is made for the sender of a job that was accepted, and in the
\* list of a process that has started that is one of its own run.
LEMMA OnCompletedKeeps ==
  ASSUME IInv, NEW p \in Procs, OnCompleted(p)
  PROVE  IInv'
<1>1. PICK j \in Jobs :
         /\ p \in job[j].held
         /\ list' = IF Accepted(p, j)
                    THEN [list EXCEPT ![p] = AddStats(@, Sender(j), job[j].age)]
                    ELSE list
         /\ job' = [job EXCEPT ![j] = Kept([job[j] EXCEPT !.held = @ \ {p}])]
  BY DEF OnCompleted
<1> DEFINE jb == [job[j] EXCEPT !.held = @ \ {p}]
<1>2. Good(job[j])
  BY DEF IInv, JobsGood
<1>3. Good(jb)
  BY <1>1, <1>2 DEF Good, JobType, NoJob
<1>4. Good(Kept(jb))
  BY <1>3, KeptGood
<1>5. job' = [job EXCEPT ![j] = Kept(jb)]
  BY <1>1
<1>6. JobsGood'
  <2> HIDE DEF jb
  <2> QED
    BY <1>4, <1>5, OneJob DEF OnCompleted, IInv
<1>7. ProcsGood'
  BY ProcsStay DEF OnCompleted, IInv
<1>8. job[j].state # "none" /\ job[j].age \in Ages
  BY <1>1, <1>2 DEF Good, NoJob, JobType
<1>9. Sender(j) \in Procs /\ proc[Sender(j)].state # "unborn"
  BY <1>8, SenderBorn DEF IInv
<1>10. ListsGood'
  <2> DEFINE l == AddStats(list[p], Sender(j), job[j].age)
  <2>1. list[p] \in [Procs -> Ages \cup {None}]
    BY DEF IInv, ListsGood
  <2>2. /\ l \in [Procs -> Ages \cup {None}]
        /\ \A q \in Procs : l[q] # None => q = Sender(j) \/ list[p][q] # None
    BY <2>1, <1>8 DEF AddStats
  <2>3. CASE Accepted(p, j)
    <3>1. list' = [list EXCEPT ![p] = l]
      BY <1>1, <2>3
    <3> HIDE DEF l
    <3>2. \A q, r \in Procs : list'[q][r] = IF q = p THEN l[r] ELSE list[q][r]
      BY <3>1 DEF IInv, ListsGood
    <3>3. list' \in [Procs -> [Procs -> Ages \cup {None}]]
      BY <2>2, <3>1 DEF IInv, ListsGood
    <3>4. Listed'
      BY <1>9, <2>2, <3>2 DEF OnCompleted, IInv, ListsGood, Listed
    <3>5. ThisRunOnly'
      BY <2>2, <2>3, <3>2 DEF OnCompleted, IInv, ListsGood, ThisRunOnly, Started,
         Accepted
    <3> QED
      BY <3>3, <3>4, <3>5 DEF ListsGood
  <2>4. CASE ~ Accepted(p, j)
    BY <1>1, <2>4, ListsStay DEF OnCompleted, IInv
  <2> QED
    BY <2>3, <2>4
<1> QED
  BY <1>6, <1>7, <1>10 DEF IInv

-----------------------------------------------------------------------------
\* Deaths.  A process that dies was born and stays so.
LEMMA DyingKeeps ==
  ASSUME IInv, NEW dead \in SUBSET {p \in Procs : proc[p].state # "unborn"},
         Dying(dead), UNCHANGED bull
  PROVE  JobsGood' /\ ListsGood'
<1>1. \A p \in Procs : /\ proc'[p].run = proc[p].run
                       /\ proc[p].state # "unborn" => proc'[p].state # "unborn"
                       /\ p \in dead => proc'[p].state = "dead"
                       /\ p \notin dead => proc'[p] = proc[p]
  BY DEF Dying
<1>2. JobsGood'
  <2>1. PICK fails \in BOOLEAN : job' = [j \in Jobs |-> Orphaned(job[j], dead, fails)]
    BY DEF Dying
  <2>2. ASSUME NEW jb, Good(jb)
        PROVE  Good(Orphaned(jb, dead, fails))'
    <3>1. CASE jb.state = "active" /\ jb.by \subseteq dead
      <4>1. Good(NoJob)'
        BY NoJobGood DEF Good, NoJob
      <4>2. Good([jb EXCEPT !.state = "waiting", !.by = {}])'
        BY <1>1, <3>1, <2>2 DEF Good, JobType
      <4> QED
        BY <3>1, <4>1, <4>2 DEF Orphaned
    <3>2. CASE ~ (jb.state = "active" /\ jb.by \subseteq dead)
      <4> DEFINE rest == [jb EXCEPT !.told = @ \ dead, !.held = @ \ dead]
      <4>1. rest \in JobType /\ (jb.state = "none" => rest = NoJob)
        <5>1. jb \in JobType /\ jb = [jb EXCEPT !.told = jb.told, !.held = jb.held]
          BY <2>2 DEF Good, JobType
        <5>2. jb.state = "none" => jb.told = {} /\ jb.held = {} /\ jb = NoJob
          BY <2>2 DEF Good, NoJob
        <5>3. jb.state = "none" => jb.told \ dead = jb.told /\ jb.held \ dead = jb.held
          BY <5>2
        <5> QED
          BY <5>1, <5>2, <5>3 DEF JobType
      <4>2. jb.state = "active" => \E p \in Procs : jb.by = {p} /\ Alive(p)'
        BY <1>1, <2>2, <3>2 DEF Good, Alive
      <4>3. Good(rest)'
        BY <1>1, <2>2, <4>1, <4>2 DEF Good
      <4>4. Good(NoJob)'
        BY NoJobGood DEF Good, NoJob
      <4>5. Orphaned(jb, dead, fails) = Kept(rest)
        BY <3>2 DEF Orphaned
      <4>6. Kept(rest) \in {rest, NoJob}
        BY DEF Kept
      <4> HIDE DEF rest
      <4> QED
        BY <4>3, <4>4, <4>5, <4>6
    <3> QED
      BY <3>1, <3>2
  <2>3. \A j \in Jobs : Good(job[j])'
    BY <2>1, <2>2 DEF IInv, JobsGood
  <2> QED
    BY <2>1, <2>3 DEF JobsGood, Good
<1>3. ListsGood'
  <2>1. list' \in [Procs -> [Procs -> Ages \cup {None}]]
    BY DEF Dying, IInv, ListsGood
  <2>2. \A q, r \in Procs : list'[q][r] = IF q \in dead THEN None ELSE list[q][r]
    BY DEF Dying
  <2>3. Listed' /\ ThisRunOnly'
    BY <1>1, <2>2 DEF IInv, ListsGood, Listed, ThisRunOnly, Started
  <2> QED
    BY <2>1, <2>3 DEF ListsGood
<1> QED
  BY <1>2, <1>3

LEMMA DieKeeps ==
  ASSUME IInv, NEW p \in Procs, Die(p)
  PROVE  IInv'
<1>1. JobsGood' /\ ListsGood'
  <2>1. {p} \in SUBSET {q \in Procs : proc[q].state # "unborn"}
    BY DEF Die, Alive
  <2> QED
    BY <2>1, DyingKeeps DEF Die
<1>2. ProcsGood'
  BY DEF Die, Dying, IInv, ProcsGood, Current, Alive
<1> QED
  BY <1>1, <1>2 DEF IInv

LEMMA RestartKeeps ==
  ASSUME IInv, Restart
  PROVE  IInv'
<1>1. JobsGood' /\ ListsGood'
  BY DyingKeeps DEF Restart
<1>2. run' \in 0 .. MaxRestarts
  BY StatisticsAssumption DEF Restart, IInv, ProcsGood
<1>3. ProcsGood'
  BY <1>2 DEF Restart, Dying, IInv, ProcsGood, Current, Alive
<1> QED
  BY <1>1, <1>3 DEF IInv

LEMMA TickKeeps ==
  ASSUME IInv, Tick
  PROVE  IInv'
<1>1. ProcsGood'
  BY ProcsStay DEF Tick, IInv
<1>2. \A j \in Jobs : Good(job'[j])
  <2> TAKE j \in Jobs
  <2>1. Good(job[j])
    BY DEF IInv, JobsGood
  <2>2. CASE job[j] = NoJob
    BY <2>2, NoJobGood DEF Tick
  <2>3. CASE job[j] # NoJob
    <3> DEFINE jb == [job[j] EXCEPT !.age = Older(@), !.done = Older(@)]
    <3>1. job[j].age \in Ages /\ job[j].done \in Ages \cup {None}
      BY <2>1 DEF Good, JobType
    <3>2. /\ Older(job[j].age) \in Ages
          /\ Older(job[j].done) \in Ages \cup {None}
          /\ job[j].done <= job[j].age => Older(job[j].done) <= Older(job[j].age)
      BY <3>1, OlderIs
    <3>3. Good(jb)
      BY <2>1, <2>3, <3>2 DEF Good, JobType
    <3> QED
      BY <2>3, <3>3 DEF Tick
  <2> QED
    BY <2>2, <2>3
<1>3. JobsGood'
  <2>1. job' \in [Jobs -> JobType]
    BY <1>2 DEF Tick, Good
  <2>2. \A j \in Jobs : Good(job[j])'
    BY <1>2 DEF Tick, Good, Alive
  <2> QED
    BY <2>1, <2>2 DEF JobsGood
<1>4. ListsGood'
  <2>1. \A q, r \in Procs : /\ list'[q][r] = Older(list[q][r])
                            /\ list[q][r] \in Ages \cup {None}
    BY DEF Tick, IInv, ListsGood
  <2>2. \A q, r \in Procs : /\ list'[q][r] \in Ages \cup {None}
                            /\ list'[q][r] # None => list[q][r] # None
    BY <2>1, OlderIs
  <2>3. list' \in [Procs -> [Procs -> Ages \cup {None}]]
    BY <2>2 DEF Tick
  <2>4. Listed' /\ ThisRunOnly'
    BY <2>2 DEF Tick, IInv, ListsGood, Listed, ThisRunOnly, Started
  <2> QED
    BY <2>3, <2>4 DEF ListsGood
<1> QED
  BY <1>1, <1>3, <1>4 DEF IInv

LEMMA StutterKeeps ==
  ASSUME IInv, UNCHANGED vars
  PROVE  IInv'
<1>1. JobsGood'
  BY DEF vars, IInv, JobsGood, Good, Alive
<1> QED
  BY <1>1, ProcsStay, ListsStay DEF vars, IInv

LEMMA NextIInv == IInv /\ [Next]_vars => IInv'
<1> SUFFICES ASSUME IInv, [Next]_vars PROVE IInv'
  OBVIOUS
<1>1. ASSUME NEW p \in Procs, Worker(p) PROVE IInv'
  BY <1>1, HandleWorkerStartedKeeps, UpdateStatsKeeps, PublishKeeps, TakeKeeps,
     ProcessKeeps, GetJobKeeps, OnCompletedKeeps DEF Worker
<1>2. ASSUME NEW p \in Procs, Construct(p) PROVE IInv'
  BY <1>2, ConstructKeeps
<1>3. ASSUME NEW p \in Procs, Die(p) PROVE IInv'
  BY <1>3, DieKeeps
<1>4. ASSUME NEW j \in Jobs, Remove(j) PROVE IInv'
  BY <1>4, RemoveKeeps
<1>5. CASE Restart
  BY <1>5, RestartKeeps
<1>6. CASE Tick
  BY <1>6, TickKeeps
<1>7. CASE UNCHANGED vars
  BY <1>7, StutterKeeps
<1> QED
  BY <1>1, <1>2, <1>3, <1>4, <1>5, <1>6, <1>7 DEF Next

LEMMA IInvTypes == IInv => TypeOK
BY DEF IInv, ProcsGood, JobsGood, ListsGood, Good, TypeOK, JobType

LEMMA Invariant == Spec => []IInv
BY InitIInv, NextIInv, PTL DEF Spec

-----------------------------------------------------------------------------
\* Types, for any numbers of processes, jobs and restarts: what is active is in
\* the hands of a process that lives, nothing is both to be fetched and
\* fetched, and without Redis there are no jobs.
THEOREM TypeCorrect == Spec => []TypeOK
BY Invariant, IInvTypes, PTL

\* No worker that has been started lists a process of an earlier run, however
\* many jobs, processes and restarts there are and in whatever order jobs are
\* completed, read and removed.
THEOREM ListsThisRun == Spec => []ThisRunOnly
<1>1. IInv => ThisRunOnly
  BY DEF IInv, ListsGood
<1> QED
  BY <1>1, Invariant, PTL
=============================================================================
