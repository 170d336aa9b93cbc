-------------------------- MODULE SchedulerEngine --------------------------
(***************************************************************************)
(* SchedulerEngine (src/core/scheduler/engine.ts): the cache of scheduled   *)
(* tasks, one timer per task, the runs in flight, and the session locks of  *)
(* SessionLocks, which it calls; with its owner rpc-mode.ts, which forwards *)
(* the user's commands and supplies the dispatcher.                         *)
(*                                                                         *)
(* Everything is on one event loop.  An action is what runs between two     *)
(* awaits: a command, a timer, the start of a dispatch whose turn in the    *)
(* runtime queue has come, the settlement of a dispatch, with the rest of   *)
(* fireTask up to the release of the lock and the synchronous fireTask of   *)
(* the task the lock is handed to.  Such a step calls several operators in  *)
(* sequence, so they map an engine record E to the next one.                *)
(*                                                                         *)
(* Every change of `tasks' is followed by persist(), so tasks.json always   *)
(* holds `tasks' and reload() reads it back.  Dates are abstracted to what  *)
(* nextRunAt answers: `window' says whether a further slot exists.  Not     *)
(* here: the dispatcher's own switching of sessions, the wording of run     *)
(* records, the write-only `running' set, failures of the file system.      *)
(***************************************************************************)
EXTENDS SessionLocks, Integers, FiniteSets, SequencesExt

CONSTANTS
    Rooms,          \* session ids
    TaskPolicies,   \* concurrency policies a task may be given
    TaskTargets,    \* session targets a task may be given
    Timed,          \* tasks with a timeoutMinutes
    HasEnd,         \* tasks with an endAt
    InitTasks,      \* tasks in tasks.json at the start
    Ops,            \* commands the user may issue
    MaxOps,         \* bound on the number of those
    MayMiss,        \* may load() find a missed run
    MayContinue     \* may a pinned session be continued in another one

NewTarget == "new"          \* sessionTarget.kind = "new"
Unsupported == "unsupported" \* no target, or the legacy kind "current"
Pending(t) == <<"pending", t>>

Rec == [id : Tasks, timed : BOOLEAN, enabled : BOOLEAN, policy : Policies,
        target : Rooms \cup {NewTarget, Unsupported}, version : Nat]

ASSUME EngineAssumption ==
    /\ Sessions = Rooms \cup {Pending(t) : t \in Tasks}
    /\ Rooms \cap {NewTarget, Unsupported} = {} /\ \A t \in Tasks : Pending(t) \notin Rooms
    /\ None \notin Rec
    /\ TaskPolicies \subseteq Policies
    /\ TaskTargets \subseteq Rooms \cup {NewTarget, Unsupported}
    /\ InitTasks \subseteq Tasks
    /\ Ops \subseteq {"create", "update", "delete", "runNow", "reload", "dispose"}
    /\ MaxOps \in Nat
    /\ {MayMiss, MayContinue} \subseteq BOOLEAN

VARIABLES
    tasks,      \* the ScheduledTask of each id, or None
    tracked,    \* timers: the armed timer of each task, as <<>> or <<object captured>>
    loose,      \* armed timers that `timers' no longer refers to
    catchup,    \* 0ms timers of catchUpMissedRuns, per task
    runs,       \* fireTask calls past acquire(), in runtimeQueue order
    timedOut,   \* recordedByTimeout
    disposed,
    window,     \* "open": another slot; "last": none before endAt; "over": past endAt
    owed,       \* history: fired runs minus run records, per task
    created,    \* history: ids ever created
    deleted,    \* history: ids delete() has accepted
    edits,      \* history: number of update() calls accepted, per task
    ops         \* history: number of commands so far

engine == <<tasks, tracked, loose, catchup, runs, timedOut, owed>>
evars == <<locks, engine, disposed, window, created, deleted, edits, ops>>

Now == [tasks |-> tasks, tracked |-> tracked, loose |-> loose, catchup |-> catchup,
        runs |-> runs, timedOut |-> timedOut, owed |-> owed, locks |-> locks]

Becomes(E) ==
    \E S \in {E} :
        /\ tasks' = S.tasks /\ tracked' = S.tracked /\ loose' = S.loose
        /\ catchup' = S.catchup /\ runs' = S.runs /\ timedOut' = S.timedOut
        /\ owed' = S.owed /\ locks' = S.locks

-----------------------------------------------------------------------------
(* Timers.                                                                 *)

Supported(task) == task.target # Unsupported

\* resolveTargetSessionId, of a supported target.
LockKey(task) == IF task.target = NewTarget THEN Pending(task.id) ELSE task.target

\* nextRunAt(task, now) # null
HasNextRun(task) == task.enabled /\ window[task.id] = "open"

\* timers.set replaces the entry without clearing the timer it held.
ScheduleOne(E, task) ==
    IF ~HasNextRun(task) \/ disposed \/ ~Supported(task) THEN E
    ELSE [E EXCEPT !.tracked[task.id] = <<task>>,
                   !.loose[task.id] = @ \o E.tracked[task.id]]

CancelTimer(E, t) == [E EXCEPT !.tracked[t] = <<>>]

Armed(t) == loose[t] \o tracked[t]

-----------------------------------------------------------------------------
(* fireTask.                                                               *)

\* The count of records owed saturates, beyond any value the properties allow.
MaxOwed == 3
More(n) == IF n < MaxOwed THEN n + 1 ELSE n
Less(n) == IF n > (-1) THEN n - 1 ELSE n

\* dispatcher.abort is facade.abort: it ends the turn in flight, whoever's it is.
AbortTurn(rs) ==
    IF rs # <<>> /\ rs[1].started THEN [rs EXCEPT ![1].aborted = TRUE] ELSE rs

\* Bug: the aborted run is not marked.
HandleTimeoutUnmarked(E, t) ==
    IF E.tasks[t] = None THEN E ELSE [E EXCEPT !.runs = AbortTurn(@), !.owed[t] = Less(@)]

HandleTimeout(E, t) ==
    IF E.tasks[t] = None THEN E
    ELSE [E EXCEPT !.runs = AbortTurn(@),
                   !.timedOut = @ \cup {t},
                   !.owed[t] = Less(@)]

\* Bug: the next fire is scheduled when the task starts, not when it has ended.
StartRunAndRearm(E, task, key, manual) ==
    ScheduleOne([E EXCEPT !.owed[task.id] = More(@),
                          !.runs = Append(@, [task |-> task, key |-> key, manual |-> manual,
                                              started |-> FALSE, aborted |-> FALSE])], task)

\* The lock is held: the run joins the runtime queue.
StartRun(E, task, key, manual) ==
    [E EXCEPT !.owed[task.id] = More(@),
              !.runs = Append(@, [task |-> task, key |-> key, manual |-> manual,
                                  started |-> FALSE, aborted |-> FALSE])]

\* fireTask up to its first await.  task is the object the caller captured.
FireTask(E, task, manual) ==
    LET t       == task.id
        current == IF E.tasks[t] = None THEN task ELSE E.tasks[t]
        key     == LockKey(current)
        kind    == AcquireKind(E.locks, current, key, current.policy)
        evicted == Evicted(E.locks, current, key, current.policy)
        P       == IF evicted = None THEN E ELSE HandleTimeout(E, evicted)
        Q       == [P EXCEPT !.locks = Acquire(E.locks, current, key, current.policy)]
    IN  IF disposed \/ ~Supported(current) THEN E
        ELSE CASE kind = "skipped"  -> [E EXCEPT !.tasks[t] = current]
               [] kind = "queued"   -> Q
               [] kind = "acquired" -> StartRun(Q, current, key, manual)

\* fireTask after the await: `landed' is dispatched.sessionId, or None.
Migrate(E, run, landed) ==
    IF landed = None \/ (run.task.target # NewTarget /\ run.task.target = landed) THEN E
    ELSE [E EXCEPT !.locks = Reassign(@, run.key, landed)]

\* Bug: a failed dispatch clears the pinned session.
AfterDispatchUnchecked(run, landed) ==
    IF run.task.target = NewTarget THEN run.task ELSE [run.task EXCEPT !.target = landed]

AfterDispatch(run, landed) ==
    IF landed = None \/ run.task.target = NewTarget THEN run.task
    ELSE [run.task EXCEPT !.target = landed]

\* Bug: the result is recorded although a timeout has been.
RecordAlways(E, run, landed) ==
    [E EXCEPT !.tasks[run.task.id] = AfterDispatch(run, landed),
              !.owed[run.task.id] = Less(@), !.timedOut = @ \ {run.task.id}]

\* Appends the run record and writes back the task as it was when it fired,
\* unless a timeout has done so.
RecordRun(E, run, landed) ==
    LET t == run.task.id
    IN  IF t \in E.timedOut THEN [E EXCEPT !.timedOut = @ \ {t}]
        ELSE [E EXCEPT !.tasks[t] = AfterDispatch(run, landed), !.owed[t] = Less(@)]

\* Bug: an aborted run does not schedule the next one.
RescheduleUnlessAborted(E, run) ==
    IF run.aborted \/ ~E.tasks[run.task.id].enabled THEN E
    ELSE ScheduleOne(E, E.tasks[run.task.id])

\* Computes the next fire.  A task deleted meanwhile makes `updated.enabled'
\* throw, and the catch block records a failed run.
Reschedule(E, run) ==
    LET t == run.task.id
        updated == E.tasks[t]
    IN  IF updated = None THEN [E EXCEPT !.tasks[t] = run.task, !.owed[t] = Less(@)]
        ELSE IF ~updated.enabled \/ disposed THEN E
        ELSE IF window[t] # "over" THEN ScheduleOne(E, updated)
        ELSE IF run.manual THEN E
        ELSE [E EXCEPT !.tasks[t].enabled = FALSE]

\* Bug: a release that forgets to run the task the lock was handed to.
ReleaseSilently(E, run) ==
    [E EXCEPT !.timedOut = @ \ {run.task.id}, !.locks = Release(@, run.task.id)]

\* The finally block.
ReleaseAndNext(E, run) ==
    LET t == run.task.id
        next == HandedTo(E.locks, t)
        F == [E EXCEPT !.timedOut = @ \ {t}, !.locks = Release(@, t)]
    IN  IF next = None THEN F ELSE FireTask(F, next, FALSE)

Settle(E, run, landed) ==
    LET A == [E EXCEPT !.runs = Tail(@)]
        B == Migrate(A, run, landed)
        C == RecordRun(B, run, landed)
        D == Reschedule(C, run)
    IN  ReleaseAndNext(D, run)

-----------------------------------------------------------------------------
(* Commands.                                                               *)

Command(op) == op \in Ops /\ ops < MaxOps /\ ops' = ops + 1

\* The task objects a command may produce for id t.
NewTasks(t, version) ==
    [id : {t}, timed : {t \in Timed}, enabled : BOOLEAN, policy : TaskPolicies,
     target : TaskTargets, version : {version}]

Create(t) ==
    /\ Command("create")
    /\ t \notin created
    /\ created' = created \cup {t}
    /\ \E task \in NewTasks(t, 0) :
          Becomes(ScheduleOne([Now EXCEPT !.tasks[t] = task], task))
    /\ UNCHANGED <<disposed, window, deleted, edits>>

Update(t) ==
    /\ Command("update")
    /\ tasks[t] # None
    /\ edits' = [edits EXCEPT ![t] = @ + 1]
    /\ \E task \in NewTasks(t, edits[t] + 1) :
          LET E == CancelTimer([Now EXCEPT !.tasks[t] = task], t)
          IN  Becomes(IF task.enabled THEN ScheduleOne(E, task) ELSE E)
    /\ UNCHANGED <<disposed, window, created, deleted>>

Delete(t) ==
    /\ Command("delete")
    /\ tasks[t] # None
    /\ Becomes([CancelTimer(Now, t) EXCEPT !.tasks[t] = None])
    /\ deleted' = deleted \cup {t}
    /\ UNCHANGED <<disposed, window, created, edits>>

RunNow(t) ==
    /\ Command("runNow")
    /\ tasks[t] # None /\ Supported(tasks[t])
    /\ Becomes(FireTask(Now, tasks[t], TRUE))
    /\ UNCHANGED <<disposed, window, created, deleted, edits>>

\* load(): the timers in `timers' are cleared and every task is scheduled;
\* the runs missed are caught up by timers nothing refers to.
Rearmed(ts) ==
    [t \in Tasks |-> IF ts[t] # None /\ HasNextRun(ts[t]) /\ Supported(ts[t])
                     THEN <<ts[t]>> ELSE <<>>]

MayHaveMissed ==
    IF MayMiss THEN {t \in Tasks : tasks[t] # None /\ tasks[t].enabled /\ Supported(tasks[t])}
    ELSE {}

Reload ==
    /\ Command("reload")
    /\ ~disposed
    /\ \E missed \in SUBSET MayHaveMissed :
          Becomes([Now EXCEPT !.tracked = Rearmed(tasks),
                              !.catchup = [t \in Tasks |-> IF t \in missed THEN @[t] + 1 ELSE @[t]]])
    /\ UNCHANGED <<disposed, window, created, deleted, edits>>

Dispose ==
    /\ Command("dispose")
    /\ disposed' = TRUE
    /\ Becomes(IF disposed THEN Now
               ELSE [Now EXCEPT !.tracked = [t \in Tasks |-> <<>>], !.locks = NoLocks])
    /\ UNCHANGED <<window, created, deleted, edits>>

-----------------------------------------------------------------------------
(* Timers and promises.                                                    *)

\* The callback deletes the entry of `timers', be it this timer's or not.
TimerFires(t) ==
    /\ \E i \in 1 .. Len(Armed(t)) :
          LET E == [Now EXCEPT !.loose[t] = RemoveAt(Armed(t), i), !.tracked[t] = <<>>]
          IN  Becomes(FireTask(E, Armed(t)[i], FALSE))
    /\ UNCHANGED <<disposed, window, created, deleted, edits, ops>>

CatchUpFires(t) ==
    /\ catchup[t] > 0
    /\ LET E == [Now EXCEPT !.catchup[t] = @ - 1]
       IN  Becomes(IF disposed \/ tasks[t] = None \/ ~tasks[t].enabled THEN E
                   ELSE FireTask(E, tasks[t], FALSE))
    /\ UNCHANGED <<disposed, window, created, deleted, edits, ops>>

\* Bug: a run whose turn comes after dispose() is dispatched all the same.
DispatchRegardless ==
    /\ runs # <<>> /\ ~runs[1].started
    /\ Becomes([Now EXCEPT !.runs[1].started = TRUE])
    /\ UNCHANGED <<disposed, window, created, deleted, edits, ops>>

\* The turn of the oldest run in the runtime queue has come.
DispatchStarts ==
    /\ runs # <<>> /\ ~runs[1].started
    /\ Becomes(IF disposed \/ runs[1].task.id \in timedOut THEN Settle(Now, runs[1], None)
               ELSE [Now EXCEPT !.runs[1].started = TRUE])
    /\ UNCHANGED <<disposed, window, created, deleted, edits, ops>>

\* Where the dispatcher says the prompt landed: nowhere (an error), in the
\* pinned session, or in a session that continues it or was just created.
Landings(task) ==
    {None} \cup (IF task.target = NewTarget \/ MayContinue THEN Rooms ELSE {task.target})

DispatchEnds ==
    /\ runs # <<>> /\ runs[1].started
    /\ \E landed \in Landings(runs[1].task) : Becomes(Settle(Now, runs[1], landed))
    /\ UNCHANGED <<disposed, window, created, deleted, edits, ops>>

LockTimesOut(s) ==
    /\ s \in locks.armed
    /\ Becomes(HandleTimeout([Now EXCEPT !.locks = TimeoutFired(@, s)], locks.holder[s]))
    /\ UNCHANGED <<disposed, window, created, deleted, edits, ops>>

\* Time passes: the last slot before endAt, then endAt itself.
WindowCloses(t) ==
    /\ t \in HasEnd /\ window[t] # "over"
    /\ window' = [window EXCEPT ![t] = IF @ = "open" THEN "last" ELSE "over"]
    /\ UNCHANGED <<locks, engine, disposed, created, deleted, edits, ops>>

-----------------------------------------------------------------------------
EngineInit ==
    /\ \E f \in [InitTasks -> UNION {NewTasks(t, 0) : t \in InitTasks}] :
          /\ \A t \in InitTasks : f[t].id = t
          /\ tasks = [t \in Tasks |-> IF t \in InitTasks THEN f[t] ELSE None]
    /\ window = [t \in Tasks |-> "open"]
    /\ tracked = Rearmed(tasks)
    /\ \E missed \in SUBSET MayHaveMissed :
          catchup = [t \in Tasks |-> IF t \in missed THEN 1 ELSE 0]
    /\ loose = [t \in Tasks |-> <<>>]
    /\ locks = NoLocks /\ runs = <<>> /\ timedOut = {} /\ disposed = FALSE
    /\ owed = [t \in Tasks |-> 0]
    /\ created = InitTasks /\ deleted = {} /\ edits = [t \in Tasks |-> 0] /\ ops = 0

EngineNext ==
    \/ \E t \in Tasks : Create(t) \/ Update(t) \/ Delete(t) \/ RunNow(t)
    \/ Reload \/ Dispose
    \/ \E t \in Tasks : TimerFires(t) \/ CatchUpFires(t) \/ WindowCloses(t)
    \/ DispatchStarts \/ DispatchEnds
    \/ \E s \in Sessions : LockTimesOut(s)

EngineSpec == EngineInit /\ [][EngineNext]_evars

\* Timers come due, and the dispatcher settles every dispatch: it catches what
\* the prompt throws, and an aborted turn ends at once.
FairEngineSpec ==
    EngineSpec /\ WF_evars(DispatchStarts) /\ WF_evars(DispatchEnds)
               /\ \A t \in Tasks : WF_evars(TimerFires(t)) /\ WF_evars(CatchUpFires(t))

-----------------------------------------------------------------------------
(* Properties.                                                             *)

RunsOf(t) == {i \in DOMAIN runs : runs[i].task.id = t}

IsWaiting(t) == \E s \in Sessions : IsQueued(locks, t, s)

RunRec == [task : {task \in Rec : Supported(task)}, key : Sessions,
           manual : BOOLEAN, started : BOOLEAN, aborted : BOOLEAN]

\* The shape of the engine's state.
EngineTypeOK ==
    /\ tasks \in [Tasks -> Rec \cup {None}]
    /\ tracked \in [Tasks -> Seq(Rec)] /\ loose \in [Tasks -> Seq(Rec)]
    /\ catchup \in [Tasks -> Nat] /\ runs \in Seq(RunRec)
    /\ timedOut \subseteq Tasks /\ owed \in [Tasks -> (-1) .. MaxOwed]
    /\ disposed \in BOOLEAN /\ window \in [Tasks -> {"open", "last", "over"}]
    /\ created \subseteq Tasks /\ deleted \subseteq Tasks
    /\ edits \in [Tasks -> Nat] /\ ops \in 0 .. MaxOps

\* engine.ts:18: an overlap must not dispatch a task twice at the same time.
OneRunPerTask == \A t \in Tasks : Cardinality(RunsOf(t)) <= 1

\* engine.ts:559: no two tasks are run for the same session at the same time,
\* except a task whose lock was taken away and whose abort is under way.
SessionExclusive ==
    \A i, j \in DOMAIN runs :
        /\ runs[i].task.target = runs[j].task.target
        /\ runs[i].task.target \in Rooms
        /\ {runs[i].task.id, runs[j].task.id} \cap timedOut = {}
        => i = j

\* The lock is held as long as the run it was acquired for.
RunOwnsLock ==
    \A i \in DOMAIN runs :
        \/ runs[i].task.id \in timedOut
        \/ disposed
        \/ locks.holder[runs[i].key] = runs[i].task.id

\* A held lock is held by a run that will release it: no lock is leaked.
LockHasRun ==
    \A s \in Sessions : locks.holder[s] # None =>
        \E i \in RunsOf(locks.holder[s]) : runs[i].key = s

\* recordedByTimeout speaks of the run in flight, never of a later one, which
\* it would cancel before its dispatch.
TimeoutFlagHasRun == \A t \in timedOut : RunsOf(t) # {}

\* A run leaves exactly one record in runs.jsonl: its result or its timeout.
OneRecordPerRun ==
    \A t \in Tasks : owed[t] = Cardinality(RunsOf(t)) - Cardinality({t} \cap timedOut)

\* An enabled task with a slot to come is never forgotten: it has a timer, or
\* a run or a place in a queue whose end sets the next timer.
StaysScheduled ==
    \A t \in Tasks :
        tasks[t] # None /\ HasNextRun(tasks[t]) /\ Supported(tasks[t]) /\ ~disposed
            => Armed(t) # <<>> \/ RunsOf(t) # {} \/ IsWaiting(t) \/ catchup[t] > 0

\* A slot is fired once: no second timer is armed for a task.
OneTimer == \A t \in Tasks : Len(Armed(t)) <= 1

\* What the user did last stands: a deleted task does not come back, and a
\* stored task is the one last saved.
LastCommandStands ==
    \A t \in Tasks : tasks[t] # None => t \notin deleted /\ tasks[t].version = edits[t]

\* A timeout or preemption ends the turn of the task it is for.
AbortsOwnTurn ==
    [][\A i \in DOMAIN runs :
        i \in DOMAIN runs' /\ runs'[i].task = runs[i].task
            /\ runs'[i].aborted /\ ~runs[i].aborted
            => runs[i].task.id \in timedOut' \ timedOut]_evars

\* A waiting task gets its run.
WaitsAndRuns(t) == IsWaiting(t) ~> RunsOf(t) # {}

\* After dispose() no run is added, and none waiting in the runtime queue is
\* given to the dispatcher.
DisposeStopsDispatch ==
    [][disposed => /\ Len(runs') <= Len(runs)
                   /\ Cardinality({i \in DOMAIN runs' : runs'[i].started})
                        <= Cardinality({i \in DOMAIN runs : runs[i].started})]_evars

\* An enabled recurring task is run again and again.
KeepsRecurring(t) ==
    []<>(RunsOf(t) # {} \/ tasks[t] = None \/ ~HasNextRun(tasks[t]) \/ disposed)

\* A run is preempted, or times out, while t waits.
Overtaken(t) == IsWaiting(t) /\ timedOut' \ timedOut # {}

\* A task that is left to its timers is run once at a time, and once for each of its
\* slots (engine.ts:18), however timers, queued runs, timeouts and preemptions meet.
TasksFireOnce == OneRunPerTask /\ OneTimer

\* What there is of a task: armed timers, missed runs, places in queues and runs.
Work(t) ==
    Len(Armed(t)) + catchup[t] + Cardinality({s \in Sessions : IsQueued(locks, t, s)})
        + Cardinality(RunsOf(t))

\* A slot is run once (engine.ts:18): nothing but a command of the user makes more work
\* of a task, however timers, manual runs, catch-up runs, queued runs and preemptions
\* meet; and that at most twice, when reload() both arms a timer and finds a missed run.
WorkIsPassedOn == [][\A t \in Tasks : Work(t)' <= Work(t) + 2 * (ops' - ops)]_evars

\* Runs and locks stay together: a run has its session to itself and owns the
\* lock it was acquired for, a held lock has a run that will release it, and
\* recordedByTimeout is about the run in flight.
RunsHoldLocks == SessionExclusive /\ RunOwnsLock /\ LockHasRun /\ TimeoutFlagHasRun

\* Without preemption no task starves: a waiting one gets its run and a recurring one
\* runs forever, unless others preempt one another for ever while it waits, for a
\* task that preempts goes ahead of those that wait (locks.ts).
TasksRun ==
    \A t \in Tasks : \/ []<><<Overtaken(t)>>_evars
                     \/ WaitsAndRuns(t) /\ KeepsRecurring(t)
=============================================================================
