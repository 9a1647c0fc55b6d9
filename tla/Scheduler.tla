----------------------------- MODULE Scheduler ------------------------------
(***************************************************************************)
(* The task scheduler of infrastructure/components/schedulers: tasks       *)
(* registered by name, each with a timer, and the callbacks of the timers. *)
(*                                                                         *)
(* The operations are synchronous and run without interruption.  A         *)
(* callback is not: it awaits the task's function, then awaits its         *)
(* response, and writes the task it read in between back into the state.   *)
(* What the response is makes no difference here and is left out.          *)
(* RunAt tasks are Delay tasks once fillTaskDefaults() has run.            *)
(*                                                                         *)
(* An operation is a function from the service's data, a record, to the    *)
(* data after it; an operation on a list of names or tasks goes through    *)
(* the list, stops where the code throws and keeps what was done before.   *)
(***************************************************************************)
EXTENDS Integers, Sequences, FiniteSets, SequencesExt

CONSTANTS Names,
          Tasks,       \* task objects that callers may register
          None,        \* no task
          NameOf,      \* task.name
          Kind,        \* task.type
          Priority,    \* task.options.priority, -1 when undefined or negative
          Unstartable, \* tasks whose start throws: bad cronTime, no context
          Batches,     \* the longest list a caller passes
          MaxTimers,   \* bound on the timers ever created
          MaxRuns      \* bound on the callbacks ever run

ASSUME SchedulerAssumption ==
    /\ NameOf \in [Tasks -> Names]
    /\ Kind \in [Tasks -> {"Cron", "Interval", "Delay"}]
    /\ Priority \in [Tasks -> Int]
    /\ Unstartable \subseteq Tasks
    /\ None \notin Tasks
    /\ {Batches, MaxTimers, MaxRuns} \subseteq Nat

VARIABLES
    state,     \* SchedulerStateService.state
    subject,   \* SchedulerStateService.subjects: <<>> or <<last value>>
    object,    \* task.object: the timer last created for the task, 0 for none
    owner,     \* the timers created so far: the task each was bound to
    armed,     \* the timers that are running
    runs,      \* callbacks between their awaits
    runCtr     \* number of callbacks so far

bookVars == <<state, subject, object, owner, armed>>
vars == <<state, subject, object, owner, armed, runs, runCtr>>

Run == [id : 1 .. MaxRuns, name : Names, phase : {"fn", "resolve"},
        current : Tasks \cup {None}]

Init ==
    /\ state = [n \in Names |-> None]
    /\ subject = [n \in Names |-> <<>>]
    /\ object = [t \in Tasks |-> 0]
    /\ owner = <<>>
    /\ armed = {}
    /\ runs = {}
    /\ runCtr = 0

-----------------------------------------------------------------------------
\* The operations on the data.

Book == [state |-> state, subject |-> subject, object |-> object,
         owner |-> owner, armed |-> armed, threw |-> FALSE]

Throw(b) == [b EXCEPT !.threw = TRUE]

\* Fault: set() tells nothing to a subject that exists.
SetTaskQuiet(b, n, t) ==
    [b EXCEPT !.state[n] = t, !.subject[n] = IF @ = <<>> THEN <<t>> ELSE @]

\* SchedulerStateService.set() and delete().
SetTask(b, n, t) == [b EXCEPT !.state[n] = t, !.subject[n] = <<t>>]
DeleteTask(b, n) == [b EXCEPT !.state[n] = None, !.subject[n] = <<>>]

\* A Cron task that was never started has no object to call stop() on.
Stop1(b, n) ==
    LET t == b.state[n] IN
    IF b.threw THEN b
    ELSE IF t = None \/ (Kind[t] = "Cron" /\ b.object[t] = 0) THEN Throw(b)
    ELSE [b EXCEPT !.armed = @ \ {b.object[t]}]

\* Fault: the number of the timer is that of the one before.
Start1Lagging(b, n) ==
    LET t == b.state[n]
        k == Len(b.owner)
    IN IF b.threw THEN b
       ELSE IF t = None \/ t \in Unstartable THEN Throw(b)
       ELSE [b EXCEPT !.object[t] = k, !.owner = Append(@, t), !.armed = @ \cup {k}]

\* The object of the task is overwritten, whatever timer it held.
Start1(b, n) ==
    LET t == b.state[n]
        k == Len(b.owner) + 1
    IN IF b.threw THEN b
       ELSE IF t = None \/ t \in Unstartable THEN Throw(b)
       ELSE [b EXCEPT !.object[t] = k, !.owner = Append(@, t), !.armed = @ \cup {k}]

Restart1(b, n) == Start1(Stop1(b, n), n)

\* Fault: a task is removed with its timer running.
Remove1Unstopped(b, n) == IF b.threw THEN b ELSE DeleteTask(b, n)

Remove1(b, n) ==
    LET s == Stop1(b, n) IN IF s.threw THEN s ELSE DeleteTask(s, n)

\* Fault: the priorities are not compared.
RejectedByName(b, t) == b.state[NameOf[t]] # None

\* validateTask(): the name and the priority must be free.
Rejected(b, t) ==
    \/ b.state[NameOf[t]] # None
    \/ /\ Priority[t] >= 0
       /\ \E n \in Names : b.state[n] # None /\ Priority[b.state[n]] = Priority[t]

\* The test for an existing task of the name never succeeds here, as
\* validateTask() has just rejected it.
Add1(b, t) ==
    IF b.threw THEN b
    ELSE IF Rejected(b, t) THEN Throw(b)
    ELSE Start1(SetTask(b, NameOf[t], t), NameOf[t])

\* What an operation does with one name, or task, of its list.
Do(op, b, x) ==
    CASE op = "add"     -> Add1(b, x)
      [] op = "remove"  -> Remove1(b, x)
      [] op = "stop"    -> Stop1(b, x)
      [] op = "start"   -> Start1(b, x)
      [] op = "restart" -> Restart1(b, x)

\* The loop over the list.
Each(op, xs) ==
    LET after[i \in 0 .. Len(xs)] ==
            IF i = 0 THEN Book ELSE Do(op, after[i - 1], xs[i])
    IN  after[Len(xs)]

Commit(b) ==
    /\ Len(b.owner) <= MaxTimers
    /\ state' = b.state
    /\ subject' = b.subject
    /\ object' = b.object
    /\ owner' = b.owner
    /\ armed' = b.armed

-----------------------------------------------------------------------------
\* What callers may call, in any order and also during a callback.

Lists(S) == UNION {[1 .. m -> S] : m \in 1 .. Batches}

\* getTasksByNames() throws on an unknown name before anything is done.
Known(ns) == \A i \in DOMAIN ns : state[ns[i]] # None

AddTasks(ts) ==
    /\ Commit(Each("add", ts))
    /\ UNCHANGED <<runs, runCtr>>

RemoveTasks(ns) ==
    /\ Known(ns)
    /\ Commit(Each("remove", ns))
    /\ UNCHANGED <<runs, runCtr>>

StopTasks(ns) ==
    /\ Known(ns)
    /\ Commit(Each("stop", ns))
    /\ UNCHANGED <<runs, runCtr>>

StartTasks(ns) ==
    /\ Known(ns)
    /\ Commit(Each("start", ns))
    /\ UNCHANGED <<runs, runCtr>>

RestartTasks(ns) ==
    /\ Known(ns)
    /\ Commit(Each("restart", ns))
    /\ UNCHANGED <<runs, runCtr>>

\* getObservable() of a name without a subject makes one with what the state
\* has, which may be nothing.
SubscribeToTask(n) ==
    /\ subject[n] = <<>>
    /\ subject' = [subject EXCEPT ![n] = <<state[n]>>]
    /\ UNCHANGED <<state, object, owner, armed, runs, runCtr>>

-----------------------------------------------------------------------------
\* The callbacks.  All three kinds have the same body.

\* The timer fires.  Its task may have lost its name: then the callback
\* throws at once, and the error is logged.  What runs is the function of
\* whatever task has the name now.
Fire(k) ==
    LET t == owner[k]
        n == NameOf[t]
    IN /\ k \in armed
       /\ armed' = IF Kind[t] = "Delay" THEN armed \ {k} ELSE armed
       /\ IF state[n] = None
          THEN UNCHANGED <<runs, runCtr>>
          ELSE /\ runCtr < MaxRuns
               /\ runCtr' = runCtr + 1
               /\ runs' = runs \cup {[id |-> runCtr + 1, name |-> n,
                                      phase |-> "fn", current |-> None]}
       /\ UNCHANGED <<state, subject, object, owner>>

\* The function rejects, returns nothing, or its task is gone, or what it
\* returned rejects when it is awaited: nothing is kept.
FnEnds(r) ==
    /\ r \in runs
    /\ runs' = runs \ {r}
    /\ UNCHANGED <<bookVars, runCtr>>

\* It returns something: current_task is read before the second await ...
FnReturns(r) ==
    /\ r \in runs
    /\ r.phase = "fn"
    /\ state[r.name] # None
    /\ runs' = (runs \ {r}) \cup {[r EXCEPT !.phase = "resolve",
                                            !.current = state[r.name]]}
    /\ UNCHANGED <<bookVars, runCtr>>

\* ... and written back after it.
Resolved(r) ==
    /\ r \in runs
    /\ r.phase = "resolve"
    /\ runs' = runs \ {r}
    /\ Commit(SetTask(Book, r.name, r.current))
    /\ UNCHANGED runCtr

-----------------------------------------------------------------------------
Operation ==
    \/ \E ts \in Lists(Tasks) : AddTasks(ts)
    \/ \E ns \in Lists(Names) : \/ RemoveTasks(ns)
                                \/ StopTasks(ns)
                                \/ StartTasks(ns)
                                \/ RestartTasks(ns)
    \/ \E n \in Names : SubscribeToTask(n)

Callback ==
    \/ \E k \in armed : Fire(k)
    \/ \E r \in runs : FnEnds(r) \/ FnReturns(r) \/ Resolved(r)

Next == Operation \/ Callback

Spec == Init /\ [][Next]_vars

-----------------------------------------------------------------------------
\* The types of the tables; a running timer is one that was created, and the
\* object of a task a timer or nothing (scheduler.service.ts:119-164).
TypeOK ==
    /\ state \in [Names -> Tasks \cup {None}]
    /\ subject \in [Names -> Seq(Tasks \cup {None})]
    /\ object \in [Tasks -> 0 .. MaxTimers]
    /\ owner \in Seq(Tasks)
    /\ armed \subseteq DOMAIN owner
    /\ runs \subseteq Run
    /\ runCtr \in 0 .. MaxRuns

(***************************************************************************)
(* Whoever subscribes to a registered task is shown that task: the subject *)
(* of a name holds what the state holds, also when the subscription came   *)
(* before the task (scheduler-state.service.ts:15-43).                     *)
(***************************************************************************)
SubjectMirrors ==
    \A n \in Names : state[n] # None => subject[n] = <<state[n]>>

(***************************************************************************)
(* A callback changes no registration, so a job that was removed stays     *)
(* removed: API.md:83-84 has "removeJob(name) - Removes a scheduled job".  *)
(* The code does not keep this: a callback writes back what it read before *)
(* its last await (scheduler.service.ts:201-206).                          *)
(***************************************************************************)
CallbacksKeepTasks == [][runs' # runs => state' = state]_vars

\* The names whose tasks have one priority.
Clashes ==
    {p \in Names \X Names :
        /\ p[1] # p[2] /\ state[p[1]] # None /\ state[p[2]] # None
        /\ Priority[state[p[1]]] >= 0
        /\ Priority[state[p[1]]] = Priority[state[p[2]]]}

(***************************************************************************)
(* Two registered tasks come to have one priority in one way only: a       *)
(* callback writes back a task that was removed or replaced since it read  *)
(* it.  validateTask() looks when a task is added, and batches that throw  *)
(* half way, removals and restarts leave nothing for it to find later      *)
(* (schedulers/common/utils.ts:12-16, scheduler.service.ts:201-206).       *)
(***************************************************************************)
ClashesExplained ==
    [][\A p \in Clashes' \ Clashes :
         \E r \in runs : /\ Resolved(r)
                         /\ r.name \in {p[1], p[2]}
                         /\ state[r.name] # r.current]_vars

\* The running timers that no registered task can stop any more.
Orphans ==
    {k \in armed : state[NameOf[owner[k]]] # owner[k] \/ object[owner[k]] # k}

\* The task of timer k, still registered, is started once more ...
StartedOver(k) ==
    /\ \E ns \in Lists(Names) : StartTasks(ns)
    /\ state'[NameOf[owner'[k]]] = owner'[k]
    /\ object'[owner'[k]] > k

\* ... or another task is written over it at the end of a callback.
Displaced(k) ==
    \E r \in runs : /\ Resolved(r)
                    /\ state[r.name] = owner[k]
                    /\ r.current # owner[k]

(***************************************************************************)
(* A timer that a registered task could stop gets out of reach in two ways *)
(* only, whatever the callers do: startTasks() on a task that is started,  *)
(* or a callback that writes the task it read over one registered since.   *)
(* Batches that throw half way, removals under a running callback and      *)
(* tasks that come back to life cost no timer                              *)
(* (scheduler.service.ts:41-182, 201-206).                                 *)
(***************************************************************************)
OrphansExplained ==
    [][\A k \in Orphans' \ Orphans : StartedOver(k) \/ Displaced(k)]_vars

=============================================================================
