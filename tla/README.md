# Verification of yueCode

This directory holds TLA+ models of yueCode's core logic, the TLC configurations
that check them on small instances, and TLAPS proofs of the theorems that hold
for every instance. Paths are relative to the repository root: `src/core/...` is
the TypeScript core, `packages/...` and `apps/...` lie beside it. (`PROJECT.json`
maps each definition to its source lines.)

## 1. The system

yueCode is a coding agent. One Node.js process per workspace (the "sidecar")
runs one conversation engine; terminal, web and desktop front ends talk to it
through line-delimited RPC. All of its core runs on one event loop: nothing is
preempted between two `await`s, and everything may happen between them. Several
processes share files: the event store of a workspace, `auth.json`,
`settings.json`, the main agent's lock. The desktop bridge is a multi-threaded
Rust program that starts and watches the sidecars.

| Component | State | Operations | Talks to | Module |
|---|---|---|---|---|
| **Prompt cycle** `runtime/runtime.ts`, `runtime/reactor.ts`, `runtime/policies.ts` | `_isProcessing`, the `Reactor` of the current prompt (abort signal, follow-up queue, turn trackers, approvals, retry timers, loop signatures, compaction abort); the log | `prompt`, `steer`, `followUp`, `abort`, `approve`, `reject`, `compact`; one handler per event type | event store, LLM client, tools, compaction policy | `Reactor`, `Mailbox` |
| **Session locks** `scheduler/locks.ts` | holder, FIFO queue per key; index by task; timeouts | `acquire` (skip, queue, preempt), `release`, `reassign`, `dispose` | calls back into the engine | `SessionLocks` |
| **Scheduler engine** `scheduler/engine.ts` | tasks, timers, runs waiting for the runtime, timeout flags | `create`, `update`, `delete`, `runNow`, `reload`, `dispose`; timers; `fireTask` | locks; the dispatcher of `rpc-mode.ts` | `SchedulerEngine` |
| Schedules `scheduler/cron.ts`, `scheduleOne` | (pure) | next slot, missed slots, delay of the timer | engine | `Schedules` |
| Event store `event-store/` | SQLite events, cached next sequence, subscribers | `append`, `appendBatch`, `subscribe`, close | everything; other processes on the same database | `EventStore` |
| Session manager `projection/` | threads, sessions, active ones, index in SQLite | open, switch, split, fork, navigate, contexts | runtime, dispatcher | `Sessions` |
| Compaction `compaction/` | boundary events in the log | choose a cut, summarise, what a context shows after it | reactor, session projection | `Compaction` |
| Goal scheduler `goal/`, goal projection | projection of goals and tasks | react to task events, assign, complete | event store | `Goals` |
| Workflow engine, delegation `workflow/`, `tools/delegate-agent.ts`, `rpc-client.ts` | runs per node, pool of workers; pending requests and collectors per client | waves over a dependency graph, abort; spawn, prompt, collect, stop | child agents over RPC | `Workflow`, `SubAgent` |
| File mutation queue, `edit`, `write` | promise chain per real path | queue, read, edit, write | tools run in parallel | `MutationQueue` |
| Main agent lock `main-agent.ts` | `.lock` file with a pid | acquire, reclaim, release | other processes | `MainLock` |
| Credentials `auth-storage.ts` | in-memory copy of `auth.json` | login, logout, reload, refresh under a file lock | other processes | `AuthStorage` |
| Settings `settings-manager.ts` | in-memory settings, marks of modified fields, write queue | setters, queued writes, reload | other processes, the user's editor | `SettingsManager` |
| Terminal interface `packages/tui/interactive-mode.ts` | flags kept from the runtime's events, texts queued during a compaction, the handler of Escape | submit, follow up, dequeue, Escape, `/compact`, change of session | runtime | `InteractiveMode` |
| Desktop bridge `apps/desktop/src/bridge.rs` | map of running sidecars, reader threads, scheduled directories | init, join, restart, guard, delete; what each window believes | sidecars, windows | `Sidecars` |
| Package manager `package-manager.ts` | configured packages, directories of clones and of npm | install, update, remove, resolve; child processes | settings, `git`, `npm`, other programs | `Packages` |
| RPC server, HTTP bridge, pty; extensions, resources, models, export, web views | configuration, views, connections | I/O, parsing, formatting | facade | see section 7 |

How they interact: a timer of the scheduler engine fires a task; the engine takes
the lock of the task's session and puts the run in a promise chain
(`runtimeQueue`); when its turn comes the dispatcher switches to the session and
calls `prompt()`, and the run ends when the prompt cycle settles. A timeout or a
preemption calls `facade.abort()`, which is `abort()` of the prompt cycle, whoever's
prompt it is running. The cycle reads its messages from the session manager's
context and may start a compaction whose boundary changes that context. The
terminal interface sees the cycle only through the events the store notifies.

### What is hard

* **Interleaving.** Aborts, steers, approvals, tool results, retry timers and LLM
  answers interleave at every `await`; timers, commands, timeouts and the end of
  a dispatch interleave in the scheduler; reader threads and requests in the bridge.
* **Replaced objects.** Each prompt has a new `Reactor` on the same log; each turn
  may get a new abort controller; a run of a task works on the task object it
  captured when it began; a sidecar is restarted under the same directory while
  the reader of its predecessor still runs.
* **Shared files.** Several processes read, change and write the same file or
  database, each with a copy in memory.
* **Liveness.** A handler that returns without ending the turn leaves `prompt()`
  pending for ever; a path of `fireTask` that forgets to re-arm forgets the task;
  a lock that is not released blocks its session; a collector nobody settles blocks
  a workflow.
* **Once and only once.** A follow-up is delivered at most once across replays and
  restarts; a run leaves one record although its timeout races its end; an OAuth
  refresh token is spent once.
* **History.** A context must keep every message across forks, closures, restarts
  and compactions.

`PROJECT.json` lists the hazards line by line, with the properties that cover them.

## 2. The modules

| Module | Role |
|---|---|
| `Mailbox` | Abstract specification: what the runtime promises about the messages the user sends |
| `Reactor` | The prompt cycle: one action per API call and per resumption of an await |
| `ReactorMailbox` | Refinement mapping `Reactor` → `Mailbox` (`ImplementsMailbox`) |
| `InteractiveMode` | The terminal interface as a client; EXTENDS `Reactor`, every step of which it observes |
| `SessionLocks` | The lock manager: its methods as operators, and `LocksSpec`, the manager alone |
| `SchedulerEngine` | The engine; EXTENDS `SessionLocks` and composes its methods inside one step |
| `Schedules` | Next and missed slots of every kind of schedule, and the engine's timer over a calendar |
| `EventStore` | Two processes on one database, with nested notification |
| `Sessions` | Session manager, session index and the RPC dispatcher that switches between sessions |
| `Compaction` | Cut, boundary and what a context shows |
| `SubAgent` | One delegation: the child process, its RPC client, the collector of its turn |
| `Workflow` | Waves, pools and abort; EXTENDS `SubAgent`, one for each target |
| `Goals` | Goal projection and goal scheduler |
| `MainLock`, `MutationQueue`, `AuthStorage`, `SettingsManager` | Shared files: the main agent's lock, edited files, `auth.json`, `settings.json` |
| `Sidecars` | The desktop bridge |
| `Packages` | Packages of git and npm, child process by child process |
| `MCReactor`, `MCClients`, `MCSchedulerEngine`, `MCWorkflow`, `MCSessions`, `MCCompaction`, `MCSchedules` | Instances for TLC |
| `Clients` | `Reactor` with a client that calls its API in any order, or with `InteractiveMode` |
| `MCScheduling` | Engine, schedules, goals and sidecars: what starts work by itself; one per behaviour |
| `MCParts` | Eight more components that share no state, one per behaviour |
| `ReactorProofs` | Theorems about the prompt cycle and its refinement of `Mailbox` (section 6) |
| `SchedulerEngineProofs`, `SchedulerFlowProofs` | Theorems about the locks, about the engine under all commands, and about the engine left to its timers |
| `PlanningProofs` | Theorems about delegation, and about the slots of schedules |
| `SharedFilesProofs` | Theorems about `MainLock`, `AuthStorage`, `SettingsManager`, `EventStore`, `MutationQueue` and `Packages` |
| `ProjectionProofs` | Theorems about `Compaction` and `Goals` |
| `SessionsProofs` | Theorems about the index of the sessions, their contexts, and turns |
| `InterfaceProofs` | Theorems about the processes of the desktop bridge, and about the terminal interface |

Some modules hold, directly before a definition, a variant of it described as a
mistake (`CanRetryOnceMore`, `ReleaseSilently`, `ListenedShort`, ...). No
specification uses them. Put in the place of the definition they make a
property fail, which shows that the property depends on that code; the pairs are
listed in `PROJECT.json` under "mutants".

### Reactor

The store notifies subscribers synchronously, so a handler's `append` runs the
next handler before it returns. An action is therefore a whole cascade from one
resumption of the event loop to the next await, written as operators
(`UserMessage`, `TurnCompleted`, `Aggregated`, ...) named after the handlers.

| In the model | In the code |
|---|---|
| `phase` | `_isProcessing`, with "starting" for the time between the synchronous part of `prompt()` and its first microtask |
| `reactor.llm`, `.retry`, `.tools` | awaited `LLMClient.complete` calls, `retryTimers`, `turnTrackers` with pending approvals |
| `reactor.interrupted`, `.abortedByUser` | `abortController.signal.aborted`, `_abortedByUser` |
| `reactor.queue`, `.attempt`, `.sig`, `.rounds`, `.compaction` | `followUpQueue`, `_attemptCount` of the current chain, `_toolRoundSignatures`, `compactionAbort` |
| `orphans` | compactions still running for reactors that were stopped |
| `inbox`, `steered`, `fresh`, `delivered`, `dropped`, `stray` | what the log says: `USER_FOLLOWUP_QUEUED` and `USER_INTERRUPT`, since the last `RUNTIME_STARTED`, the `caused_by` of drained `USER_MESSAGE`s, `USER_FOLLOWUP_DROPPED`, steers logged with nobody subscribed |

Abstracted: the content of messages, streaming deltas, usage figures; a tool call
is a member of `ToolIds`, the names and arguments of a round are a signature; the
classifier's answer is `NeedsApproval`; compaction policies and the retry policy's
error test are nondeterministic; an LLM that answers after an interrupt may answer
anything. `Restart` is a crash or a new runtime over the same log.

### SessionLocks and SchedulerEngine

The locks are one record (`holder`, `queue`, `index`, `armed`); a method is an
operator from that record to the next, and a method that calls back has a second
operator naming the task it calls back with (`Evicted`, `HandedTo`). The engine
does the same with its own state: `Now` packs the variables into a record `E`,
operators named after the engine's methods map it, `Becomes(E)` assigns it. So one
step of the event loop, e.g. `Settle` = the continuation of `fireTask`
(`Migrate`, `RecordRun`, `Reschedule`, `ReleaseAndNext`, and the `fireTask` of the
task the lock is handed to), is one action, in the order of the code.

| In the model | In the code |
|---|---|
| `tasks` | `tasks` and `tasks.json` (every change is followed by `persist()`) |
| `tracked`, `loose` | armed timers that `timers` refers to, and those it no longer does; each keeps the task object its callback captured |
| `catchup` | 0 ms timers of `catchUpMissedRuns` |
| `runs` | `fireTask` calls past `acquire`, in `runtimeQueue` order, with the key they locked |
| `timedOut`, `disposed` | `recordedByTimeout`, `disposed` |
| `window` | what `nextRunAt` can still answer: a slot, none before `endAt`, `endAt` passed |
| `owed`, `created`, `deleted`, `edits`, `ops` | history: fired runs minus run records; ids created and deleted; accepted updates; commands issued |

Abstracted: dates and delays (`window` says only whether another slot exists; an
armed timer may fire at any time), the wording of records, the failure of file
operations, edits of `tasks.json` by another program, and the set `running`, which
the code writes and never reads. The dispatcher catches every exception
(`rpc-mode.ts`), so a dispatch ends with a landing session or with none. Between
the end of one dispatch and the start of the next lies one microtask; the model
makes it a step of its own, so it allows at least what the code does. The switch
of the active session inside the dispatcher is not modelled.

### InteractiveMode

Every action of the runtime is taken through `RuntimeSteps`, which conjoins what the
interface hears of it: `HeardCompletion`, `HeardTools`, `HeardInterrupt` compute from
the reactor before and after the step which events were appended, and the operators
named after `handleModeEvent`'s cases map the fields `ui`.

| In the model | In the code |
|---|---|
| `ui.streaming`, `.compacting`, `.working` | `isStreaming`, `isCompacting`, whether `loadingAnimation` exists |
| `ui.escape`, `.retrySaved`, `.compactionSaved` | `defaultEditor.onEscape`, `retryEscapeHandler`, `autoCompactionEscapeHandler` |
| `ui.queue`, `sending`, `stage` | `compactionQueuedMessages`, the rest of it while `flushCompactionQueue` runs, and whether its prompt's first microtask has run |
| `loop`, `initial` | `run()`: `getUserInput()` or `prompt()` awaited; messages of the command line |
| `typed`, `prompted`, `editor`, `abandoned`, `untold`, `mute`, `tangled` | history |

A key press is a macrotask, so the interface acts only when no microtask is pending
(`Quiet`); the client "any" of `Clients` has no such limit.

### SubAgent and Workflow

`agents[t]` is one call of `delegateOne` with its process, its two pipes, the request
that waits for a reply and the collector of `promptAndWait`; `Workflow` adds the
waves, the results and the pool: a target is claimed by a worker of its node when
fewer than `Width` run. Every timer (spawn check, 30 s request, collector) may fire
whenever it is armed. The definition's dependencies are a variable chosen at `Init`:
every relation over the nodes, cyclic ones included.

### EventStore

A call of `append` in progress is an element of the stack `proc[p].calls`; the top one
is told to one subscriber after the other, and a subscriber's handler may append again
before it returns. A batch has one event or two (`Batches`). The statements of an append (look for the key, insert, notify) are
steps, with the other process and a crash between them.

### Sessions

`log` is a sequence of events reduced to kind and thread; `mem` is the manager's maps,
`saved` the index in SQLite. Methods are operators on a record `S` of the two
(`Now`), composed as the code composes them; `Does` makes a step of such a record and of
those it saves on its way, and a death may come between any two of its writes. `Context`
is what `buildContext` returns: the events a session shows, after the context of the
session it continues. `turn` is the prompt under way with the session it belongs
to, and for a dispatch the session to return to. `prompt()` makes the active session
writable and awaits `reactor.start()` before it appends the message, and commands that came
with it in one chunk run at that await; so `Prompt` chooses the session, and `Ask` appends
the message to whatever session is active by then (`turn.asked`).

### Compaction

The log of one session is a sequence of sizes and kinds; `Cut` is `findCutIndex` of
`compaction-engine.ts`, `Shown` is what `session-projection.ts` shows after the last
boundary; `compacting` holds compactions that have chosen their cut and not yet appended
the boundary. An abort sets the signal of a compaction and no more: `CutShort` is what
becomes of it, either no boundary or one whose summary stands for only a part of what it
should (`partial`).

### Schedules

A calendar in small units (`TicksPerMinute` .. `MonthDays`) and a fixed offset of local
time; `nextRunAt`, `cronNextRun`, `lastMissedRunAt` are translated branch by branch, a
turn of a loop by an operator (`CronTurn`, `MissedTurn`) and the loop by a recursive
function of the number of turns. The behaviour is the engine's `scheduleOne` for one task:
the clock advances, the timer is armed and fires, restarts look for missed slots.
`MaxDelay` is the 32-bit limit of `setTimeout`, `MaxMissed` the bound of 5000 slots.

### Goals

The scheduler's projection hears an event before the scheduler does, and the scheduler
answers within the notification; so `AppendEvent` and what `_tryDispatch` appends are
one step. `inLog` is what the whole log says, `projected` what the scheduler's
projection has; they differ when it was stopped (`deaf`).

### Shared files

`MainLock`: each process is at a statement of `acquireMainLock`; a process may crash at
any. `MutationQueue`: `chain` per key, a tool call at its await (waiting, reading,
writing); a path is keyed by its real path, or by itself while the file does not exist.
`AuthStorage`, `SettingsManager`: each instance's memory and what it is doing under the
file lock, with the file; a process may die holding it, a user may edit the file. In
`AuthStorage` a lock may look stale and be removed at any moment (`LockGoesStale`); its
holder is `robbed`, and `compromised` from the moment it is told.

### Sidecars

The map `sidecars`, the processes, and one reader thread for each; each step is what a
thread does between two acquisitions of the map's mutex. `windows` is what each window
believes (`active` directory, a request under way), `scheduled` the set of directories
the guard keeps running.

### Packages

`configured` is the settings' lists, `disk` what each directory holds: whether it exists,
the version of its files, the fetched head, whether its dependencies are there. Each
program runs one command, or resolves its packages at start or reload; `stage` says which
child process runs in a directory, or is next. Any child may fail, any program may be killed
with its child at any point. `spoilt` and `crossed` are history: directories that a step left half
done, or that another program changed meanwhile.

## 3. Running

    tlc -workers 2 -config ReactorTurns.cfg MCReactor.tla
    tlapm ReactorProofs.tla

The largest runs, `reactor_mail`, `scheduling`, `scheduler_commands`, `sessions` and `parts`,
have between 280 000 and a million states each and take one to two and a half minutes with
two workers.

## 4. What the runs check

Deadlock is checked in the Reactor runs. The other cfgs turn it off, because the
systems really stop: an engine that was disposed or whose tasks have ended, a workflow
that has returned, and every model whose bound on events or commands is used up.

A property whose name follows "=" below is a conjunction of named parts; each part is
stated and commented in its module.

### The prompt cycle

**reactor_turns** (two messages, two tool calls of which one needs approval, two
signatures, two retries, loop limit 2, LLM calls that throw, restarts): `TypeOK` (with it the bound on retries);
`OneActivity`: a running cycle never has two LLM calls, or a call and a tool round,
or either and a retry timer outstanding, and none once `prompt()` has resolved;
`AbortStopsCalls`: after `abort()` no further LLM call, delivery or policy compaction, whatever
completes late. Two tools are the least for a round to be half complete, two
retries for the attempt counter to count, two messages for a queue to have an
order.

**reactor_mail** (three messages, crashes, throwing LLM, same-tick inputs): two clients
of one runtime, of which a behaviour has one. With "any" the API is called in any
order: `NothingLost` and the refinement `ImplementsMailbox`: messages are delivered in
log order, at most once, never after being recorded as dropped, and none disappears
without one of the recorded reasons, across prompts, aborts, replays and restarts
(`MailInOrder` of `Reactor` follows from the refinement). With "terminal" the client is
`InteractiveMode` and the same two properties hold of what it makes of the user's keys;
`TerminalSound` = `InterfaceTypeOK`, `FlagsTell` (a turn under way is shown and steered,
a compaction is shown), `TextsKept` (a text submitted is prompted, in the log, queued,
back in the editor or left with its session), `EscapeInterrupts` (Escape reaches whatever
goes on, and is the editor's own key when nothing does). Three messages suffice for one
delivered, one queued and one arriving; the terminal has one message of the command
line besides. The excused cases `untold`, `mute`, `tangled` are listed in section 5.

**reactor_live**: `NeverStranded` (a running cycle always has one activity, so `prompt()`
will resolve; section 6 proves it for every instance), `AbortSettles` (after `abort()` the cycle ends) and `PromptSettles`
(a model that repeats one tool round is stopped by loop detection) under `FairSpec`.
Here no approval handler is configured, so approvals are rejected at once, and
the LLM client does not throw: with an approval pending or a retry after an
interrupt the code does not guarantee either (section 5). `PromptSettles` has a
single signature because only identical rounds are stopped.

### The scheduler

**scheduling** chooses at `Init` which of four components moves; the others stay as they
began, so its states are the disjoint union of those of the four, and a property of one
holds of the union exactly if it holds of that component. The type invariants are
`SchedulingTypeOK`; of the engine, see scheduler_commands.

The engine (230 000 states; three tasks, of which two have timeouts, one has an end date
and one is created later; all policies; two sessions and "new") is left to its timers: the only command is create, and
no run was missed; the other commands are the matter of scheduler_commands. `TasksFireOnce` = `OneRunPerTask`, `OneTimer`; `RunsHoldLocks` =
`SessionExclusive` (two runs share a session only while one of them is being aborted),
`RunOwnsLock`, `LockHasRun` (no leaked lock), `TimeoutFlagHasRun` (a timeout flag never
cancels a later run). Three tasks are needed for a holder, a waiter and a third that
preempts.

Schedules (39 000; daily, hourly, weekly, monthly, interval and cron plans over a calendar
of two ticks a minute, three minutes an hour, two hours a day): `TimerIsForNextSlot` and
`SlotsKept` = `SlotsInOrder`, `MissedIsLatest`, each against a definition that
says instant by instant what a slot is (`IsSlot`). `SchedulesFit` checks on this instance
what the theorems about it suppose (section 6).

Goals (250 000; three tasks with a dependency and priorities, one slot, the code's
default): `GoalsKept` = `NothingWaits`, `AssignedInTurn`.

Sidecars (282 000; two windows, two directories, three spawns): `SidecarsKept`: a
window that believes a sidecar active has one or has been told, one process per
directory but for the known races.

**scheduler_live** (three tasks, one of them created later, policies queue and preempt, no
timeouts, one session and "new"): `StaysScheduled` (an
enabled task with a slot to come has a timer, a run or a place in a queue),
`OneRecordPerRun` (a preemption racing the end of the dispatch leaves one record),
`TasksRun` under `FairEngineSpec`: of each task, that a waiting one gets its run
(`WaitsAndRuns`) and a recurring one runs again and again (`KeepsRecurring`), unless runs
are preempted infinitely often while it waits (`Overtaken`). Three tasks are a holder, a
waiter and one that overtakes it; the excuse is needed, since without it the run finds
the two that preempt each other for ever (section 5). The policy skip is
left out because it does break `StaysScheduled` (section 5).

**scheduler_commands** (two tasks, one with a timeout, policies queue and preempt, one
session; one command of any kind at any moment; missed runs found at
load and reload): `EngineTypeOK`; `DisposeStopsDispatch`: catch-up timers,
loose timers and runs waiting for the runtime outlive `dispose()`, none is dispatched;
`WorkIsPassedOn`: what there is of a task (armed timers, catch-up timers, places in
queues, runs) grows only by a command, and by at most two, although a command may come
while the task runs and leave several timers for it. So nothing the engine does by itself
multiplies what a command left behind.
That the engine keeps the lock manager coherent (`LocksSound`) is proved (section 6).

### Delegation and sessions

**delegation** (every dependency relation over two nodes, one with two targets and one
worker; replies late, doubled or missing, processes that die): `DelegationSound` =
`WorkflowTypeOK`, `PoolBounded`, `NoneLeftBehind` (no process without its caller);
`WavesSound` = `DependenciesSettled`, `RejectsCycles`; `ReportsTruth` (a node reported
ok has only targets that are ok, unless the run was aborted, and a delegation that is ok
saw its turn complete); `Returns` (the run returns, under `FairWorkflowSpec`).
Two targets for one worker is the least for one to wait; two nodes for a dependency.

**sessions** (280 000 states; six events, three sessions, one move of the user in a turn): `SessionsSound` = type, `BoundariesSound`,
`IndexCurrent` (after an operation the index says what the manager does);
`ContextsOnlyGrow` (no operation takes a message from a session's context);
`PromptKeepsHistory` = `ChoiceKeepsHistory` (the session a prompt chooses is open and shows
all that was shown, even if that session had ended), `MessageKeepsHistory` (whatever comes
before the message, it is appended there unless somebody moved, and is the last of what is
shown unless they moved to a session that has ended);
`TurnsUndisturbed` = `UndisturbedTurn`, `DispatchKeepsTurn` (a scheduled dispatch leaves
the user's session and turn as they were). Three sessions are a session, its
continuation and a fork.

### Parts

**parts** checks eight more components side by side in the same way. Next to
`PartsTypeOK` (their type invariants), with the states each contributes:

* locks (49 000; three tasks, two sessions): `LocksSound` = `IndexSound` (the index never
  names a lock another task holds, so a late `release` cannot free another's lock),
  `QueueHasHolder`, `QueueDistinct`, `TimeoutHasHolder`; `ServedInOrder`: a waiter leaves
  a queue from its head by becoming holder, or with the whole queue when it is re-keyed.
* events (155 000; one process with two events and two subscribers, one with one event,
  one key): `LogSound` = `OwnOrder`, `BatchWhole` (a batch is contiguous or absent),
  `StaleCatchesUp` (an append fails for a stale sequence number at most as often as
  others have inserted), `Told` = `ToldIsLogged`, `EldestHearsInOrder`, `EveryoneTold`.
* agent (5 000; three processes): `SettledOwnerIsAlone`: a process that finds an owner's pid
  in the lock file neither becomes an owner nor overwrites the file while it stands.
* files (23 000; a write and three edits in two turns, a link and its target):
  `EditsKept` = `QueueHasUser`, `ReportedEditStays` (an edit reported done is not
  overwritten by one that read before it).
* credentials (two instances, two providers, three credentials, two mishaps: deaths,
  failed requests, logouts or locks taken for stale): `CredentialsKept` = `RefreshedOnce` (a
  refresh token is sent twice only if its answer was lost or its sender was robbed of the
  lock), `WritesOneForward` (a write changes only its own provider's entry, and never back to
  an older token), but for the write of an instance that was robbed and not told
  (`StoredUnaware`). Three credentials are one that expires, its refresh and a login that
  races it.
* settings (78 000; two managers, two fields): `SettingsKept` = `SetIsNotForgotten`,
  `WritesOwnFields`.
* compaction (131 000; two sizes around the kept budget, two compactions at once):
  `ContextComplete` = `OnlyFailureForgets` (only a compaction that failed, or whose summary an
  abort cut short, makes the model forget a message), `ShownOrSummarized`, `ResultsStayWithCalls`.
* packages (96 000; two programs, a package of git in both scopes and one of npm, two
  commands or edits after an optional first installation): `PackagesKept` = `LoadsWhole`
  (what a program loads is complete and of npm at the pinned version, unless a step failed
  or another program was at work there), `LoadsOnce`, `UpdateBrings`.

### Bounds

`MaxOps` bounds the user's commands; `MaxOrphans` compactions of ended cycles;
`MaxOwed` = 3 saturates the history counter `owed` beyond every value the property
allows; messages are used once each, so `Msgs` bounds them; `rounds` saturates at
`LoopLimit`, the point where the code stops looking. Calls, timers and tool rounds
need no bound: `OneActivity` bounds them. `MaxTurns`, `MaxMade`, `MaxSubs`, `MaxIssued`, `MaxMishaps`,
`MaxSets`, `MaxLog`, `MaxVersion`, `MaxRunning`, `MaxSpawns`, `MaxEvents`, `MaxGoalEvents`, `MaxSessions`
bound what their names say; each is large enough for two actors to overlap and for one
of them to come back afterwards. Symmetry is used only in runs without liveness: over
messages, calls with the same approval status and signatures, and over names that the
model treats alike.

### Fairness

`Reactor.FairSpec`: microtasks and timers run (Node's event loop), an LLM call ends
(its stream ends, or throws), a tool returns. Nothing is assumed of the user, so
approvals carry no fairness. `SchedulerEngine.FairEngineSpec`: due timers fire, a
dispatch whose turn has come starts, and a started dispatch ends, which is what the
prompt cycle promises under its own fairness. `Workflow.FairWorkflowSpec`: armed timers
fire, written lines are read, a free worker claims its next target; nothing is assumed
of the sub-agent, which may stay silent. Weak fairness suffices: each action
stays enabled until taken. Commands and lock timeouts carry none.

## 5. Disagreements between code and documentation

Three runs end in a violation. Each states what a comment says; the finding in
`PROJECT.json` quotes it.

* **scheduler_last_command** (`LastCommandStands`): the end of a run overwrites an
  update made, or revives a task deleted, while it ran.
* **compaction_forgets** (`NothingForgotten`): a compaction that fails ends with a
  boundary that hides everything before it.
* **schedule_early** (`NotBeforeStart`): a delay beyond 2^31-1 ms fires at once.

Varying the constants of the passing runs shows more:

* `NeverStranded` with `SameTickInputs = TRUE`: an abort in the tick of `prompt()` leaves
  a cycle nothing resumes, and later prompts throw; with `LlmMayThrow = TRUE`, an LLM call
  that throws after an interrupt schedules a retry whose timer then does nothing.
* `AbortSettles` with `HasApprovalHandler = TRUE`: an approval pending at `abort()` keeps
  the turn open until it is answered.
* `StaysScheduled` with the policy skip: a skipped tick sets no next timer.
* `WaitsAndRuns` and `KeepsRecurring` without the excuse `Overtaken`: two tasks that preempt
  each other, at slots that come before the preempted run has ended, keep a queued one out
  for ever: the one that preempts takes the lock and leaves the queue where it was.
* `OneRunPerTask` with missed runs: a caught-up run leaves two timers for the next slot.
  Catch-up, `runNow`, `update` and `reload` can each leave two timers or two runs of a
  task, and then break `OneTimer`, `SessionExclusive` and `RunOwnsLock`; that is why
  `scheduling` allows the engine only `create`. What one command leaves is bounded
  (`WorkIsPassedOn`), and a task keeps it: two timers stay two, at every slot from then on.
* `AbortsOwnTurn`, which no run checks: the timeout of a run that still waits for the
  runtime aborts the turn of another task.
* When a pinned session is continued in another one (`MayContinue`), `reassign` moves
  the queue to the new key; the waiter is given that lock, acquires its own target
  instead and never releases the first (`LockHasRun`).
* A lock timeout aborts and records but frees no lock. A timeout followed by a
  preemption of the same run writes two records (`OneRecordPerRun`). Preempting the run
  of a deleted task neither aborts nor records it.
* `MissedIsLatest` with a small `MaxMissed`: the search for missed slots stops after 5000.
* `RefreshedOnce` without its excuse `lost`, `WritesOneForward` without `StoredUnaware`: the
  holder of the credentials' lock takes it with a stale time of 30 s and touches it every 15 s
  (auth-storage.ts:132), but `reload()`, `set()` and `remove()` take the library's default of
  10 s (line 69). A refresh of more than 10 s can so lose its lock to any other instance that
  reloads or logs in, without anything having failed; both then send the same refresh token,
  or the holder, which learns of it only at its next touch, writes back the file as it read it
  over the other's login.
* `OnlyFailureForgets` without `partial`: a compaction that is aborted while the model writes
  the summary ends like one that succeeds, because an aborted answer is an answer with the
  stop reason "aborted" and `compaction-engine.ts:227` refuses "error" only. The boundary
  hides the whole prefix, and the summary that replaces it breaks off where the abort came.

Others were met while modelling; the models contain them, and the properties excuse them
by name:

* Terminal: a text submitted while the turn waits to retry is kept only in the editor's
  history (`untold`); two texts queued during a compaction strand the prompt cycle, the
  second being steered in the tick of the first; after `/compact` or a resume within a
  turn Escape no longer interrupts it (`mute`); overlapping retry and compaction leave
  Escape bound to the wrong handler (`tangled`); the offered Escape does nothing during
  the usual automatic compaction, whose cycle has already ended.
* Sessions: a command that comes with a prompt in one chunk runs between the choice of a
  writable session and the message (runtime.ts:191), so that the message can go to a session
  that has ended, which does not show it; a process deletes another's rows from the index; the reply of a turn goes to
  the session switched to meanwhile; a closed continuation that is forked loses its
  inherited context.
* Schedules: for most modes `nextRunAt` is strictly after its argument although its
  comment says "at or after"; a monthly task beyond the timer's range fires repeatedly.
* Workflow: an aborted run can report ok, because targets that never started leave holes
  in the results.
* Compaction: after a compaction in a continued session the parent's messages are still
  shown; an older compaction that ends last brings messages back; a result loses its call
  when the cut falls on a notice between two results.
* Main lock: a process that loses the race for a removed file holds a handle without a
  file; an empty lock file reads as no owner.
* Files: an abort during a write lets the next turn's call start while the write is under
  way; two names of a file that does not exist yet have two queues.
* Credentials: `set()` during one's own refresh fails, and the refresh then drops it from
  memory; an instance started during another's refresh silently saves nothing.
* Settings: a write that succeeds clears the marks of fields set after it was queued.
* Sidecars: overlapping `init`s of one directory replace each other, and the reader of
  the first then removes the second; a window may not hear that its sidecar ended;
  a failed join leaves bridge and window with different active directories.
* Packages: an install or update that fails or is killed half way leaves a directory that
  counts as installed, at the wrong ref or without its dependencies, and a later update
  whose head has not moved does not repair it; a changed git ref is never checked out
  (npm's is installed); installing again with another pin keeps the old one in the
  settings; of two commands at once in one scope the later write drops the other's
  entry; a removed package comes back by a program that had read the settings before; two
  programs that start at once clone into one directory.
* Goals: created and cancelled tasks are not listened to; a scheduler created after a
  crash between `TASK_COMPLETED` and `TASK_ASSIGNED` waits for an event that may not
  come; `start()` after `stop()` keeps a stale projection.

## 6. What is proved

The theorems hold for every value of the constants that the modules' ASSUMEs allow, and
tlapm checks every leaf. The ASSUMEs say what a configuration of the program has
anyway: the marks (`NoAgent`, `None`, `NoKey`, ...) are no member of the set they stand
outside of, bounds are numbers, goal tasks and tool calls are finitely many
(`GoalsAssumption`, `ConstantsAssumption`), there is a provider to log in to
(`AuthAssumption`), an event has a size and a log has room for two
(`CompactionAssumption`), the pending keys are no session
(`EngineAssumption`). What a theorem assumes beyond that is in its statement, and said
below with what happens without it. `PROJECT.json` lists each theorem with the property it
states.

Each proof has the same shape: an inductive invariant of named parts, a lemma for each
operator or action that keeps it, a step theorem that joins them, and a QED by temporal
logic.

**ReactorProofs** (the prompt cycle). `TypeCorrect`, `OneActivityAlways`. `OneActivity` is
not inductive: a handler such as `TurnCompleted` is called in the middle of a step, when the
activity that led to it is already over. The invariant adds the shape of the reactor in
each phase, and each handler has a lemma: called with nothing outstanding, it yields at
most one thing outstanding, or ends the cycle with none. `AbortAlwaysStopsCalls` uses the
same invariant for a statement about steps: in an aborted cycle each handler that would
start an LLM call meets the signal first.
`NeverStrandedWhenOrderly`: `NeverStranded` for an LLM client that does not throw and
inputs that come no earlier than the prompt's own message. The two assumptions are
the two ways of section 5 in which the code strands a cycle; the theorem says there is
no third. `Awake` strengthens the property: besides a running cycle always waiting for
something, no aborted signal meets the prompt's message or a retry timer, the two
continuations that give up under one without ending the turn.

What the user is promised, in the same module: `NothingEverLost` and
`CycleImplementsMailbox`, the refinement of `Mailbox`, for any set of messages. Between
cycles the mapping sends the waiting messages to the sequence the next reactor would
replay, chosen by its order; `MailInv` therefore says that there is such a sequence and
only one. The steps of the cycle map to steps of the mailbox because a replay starts
with that sequence, a follow-up extends it at its end, and a drain takes its head.

**SchedulerEngineProofs** (the locks alone, and the engine under all commands, policies,
timeouts, continuations and missed runs together). `LocksIndexSound`,
`LocksQueueHasHolder`, `LocksQueueDistinct`, `LocksTimeoutHasHolder`, together
`LocksAlwaysSound`, from `Coherent(locks, Objects)`. The point of it is the link in both
directions: a task's index entry is held by that task, and a queue is non-empty only
behind a holder. Without the first, `release` could clear another's lock and leave its
queue behind a free one. `LocksServedInOrder` follows from the position at which each
method leaves a waiter.
`EngineTypeCorrect`, `EngineLocksSound`, with
`EngineInv == EngineTypeOK /\ Coherent(locks, Rec)`: each operator (`FireTask`, `Settle`,
...) maps a good record `E` to a good one, so every action is a composition of lemmas.
`DisposeAlwaysStops`: with `disposed` set `FireTask` and `ScheduleOne` change nothing, so
every action that a timer, a release, a timeout or a command starts leaves the queue of
runs as it is, shorter, or marked aborted.

**SchedulerFlowProofs** (the engine left to its timers). `TasksAlwaysFireOnce`,
`RunsAlwaysHoldLocks`, `AlwaysStaysScheduled`, `OneRecordAlways`, for any number of tasks
and sessions, any policies and timeouts. They assume `OnlyCreates`: the user's only
command is create, `load()` finds no missed run and a pinned session is not continued in
another one. Section 5 shows that other commands and missed runs do break the
properties; the theorems say that timers, queues, preemption and timeouts by themselves do
not. `FlowInv` says of each task that it has a timer, or one run, or one place in one
queue, and never two; of each run that it is of the stored task and owns its lock unless
its timeout flag is set; of each held lock that it has a run. In the middle of a step that
fails for the one task being handled, so the parts take that task as a parameter
(`HoldersRun(E, x)`, `Scheduled(E, x)`). `AlwaysStaysScheduled` needs that no policy is
"skip", which forgets a task whose session is busy, and `OneRecordAlways` that no task has
a timeout, since one followed by a preemption writes two records (section 5).

**PlanningProofs** (delegation, and schedules). `DelegationAlwaysSound`, `DependenciesAlwaysSettled` (a
node starts when every target of its dependencies has returned and its process is gone)
and `ReportsAlwaysTruth`, for any nodes, targets, widths and dependency relation.
`AgentSound` says what each phase of a delegation may have left in its pipes;
`PoolsSound`, that a node's workers claim its targets in order, at most its concurrency at
a time, and that it is done when all are claimed, or the run was aborted, and none is busy; `ResultTrue`, what the loop's result is told of.
`WavesAlwaysSound` adds that a graph is rejected exactly if it has a cycle, for any number
of nodes (`OrderIffNoCycle`). `topoOrder` keeps `Ordering`: what is queued is what waits for
ordered nodes alone, and each ordered node comes after all it waits for. So a turn
orders one more node as long as one is queued; when none is and nodes are left, those left
wait for one another; and in a full order the first node of a cycle would come after
another of the cycle. What the two loops compute is reached without the library's
theorems on induction over data, which no installed prover can instantiate: `Induction`
states induction for a set of numbers and is proved by its least counterexample,
`Recursion` builds the function that a recursive definition chooses.

`TimerAlwaysForNextSlot`, `SlotsAlwaysKept` and `NeverBeforeStart`, for any lengths of
minutes, hours, days, weeks and months (the same every year), any offset of local time and
any schedules. A turn
of `cronNextRun` keeps `SearchSound`: no minute before the one it looks at matches, and if
that minute is of the day looked at last, its month matches. For the second, a leap to the
next midnight or to the first of the next month must end on another day of the year
(`NextMidnightIs`, `FirstOfNextMonthIs`; hence more than one month to a year), and every
minute leapt over must be of the day or month left. Every turn goes on, so the turns that
the model grants suffice (`CronNextRunIs`); `NextRunAtIs` says the same of every mode, with
`startAt` and `endAt`. A turn of `lastMissedRunAt` keeps `WalkSound`: what it has found is a
missed slot, and the next one is the first after it, because no schedule has two slots a
tick apart (`SlotsApart`: the code searches on from a millisecond after the slot). The
theorems suppose, as far as they need it, three things of the constants, and the code
does not ensure them:

* `SearchReaches`: where a slot is to come, the search looks far enough for one (366 days
  for dates, five years for cron). In the real calendar cron fails it once a century: the
  29th of February that follows a leap year left out is eight years away.
* `DelaysFit`: no slot is further off than setTimeout's 2^31 ms, 24.8 days. A monthly
  schedule fails it, and then a run begins at once (`ScheduleEarly`, section 5).
* `MissesFit`: no outage misses more than 5000 slots. A schedule of every minute fails it
  after three and a half days, and what is caught up is then an older slot.

**SharedFilesProofs** (files shared by processes, and by tool calls).
`MainLockTypeCorrect`, `SettledOwnerAlwaysAlone`: an owner that was found (`SettledStands`)
is the one the file names, and lives, until it removes the file itself.
`AuthInvariant`, `CredentialsAlwaysKept`: who refreshes holds the lock and has read what
the file still holds, or was robbed and its credential counts as lost (`Job`); what it was
answered is newer than all it read; a credential that was sent is gone from the file, unless
it counts as lost or its answer is about to be stored. Locks go stale at any moment and
nothing is assumed: the invariant follows the robbed (`Rob`) through a release that removes
the lock of the next, until it is told, or stores unaware.
`SettingsInvariant`, `SettingsAlwaysKept`: marks and queued writes are about what was set
lately, the last queued write holds every mark, and what is unsaved, late failures apart,
is marked or queued. `EventInvariant`, `LogAlwaysSound`, for any number of processes,
batches, subscribers and nested appends: the numbers of a pending call lie above all its
process has in the log (`LowSeq`, `LowN`), what is not told is still to be told by a call
on the stack (`ToTell`), and the failures of a stale sequence number plus the rows it has
still to pass are at most the rows others have inserted (`StaleSound`); the last is why
it catches up. `MutationTypeCorrect`, `EditsAlwaysKept`: the queue of a file is no data
structure but the chain of the promises that calls await; the invariant gives the calls
ranks along it, so at most one call is at work under a key, and one about to write has read
all that landed under its key. `PackagesInvariant`, `PackagesAlwaysKept`, for any packages,
programs and failing or killed children: what exists and was not left half done is whole
(`DirSound`); a program has brought a directory as far as the stage of its child says, or
knows that another has changed it (`Brought`); and whoever is under way while another
clones knows it (`ClonesCross`), since a clone that fails removes what it made.

**ProjectionProofs** (what is computed from a log). `CompactionInvariant`,
`ContextAlwaysComplete`, for any sizes, budget and number of compactions under way, aborted
ones that go on included: a boundary, in the log or still awaited, names a kept message of the user or notice, and its
summary covers the session's messages before it but those that a failed one, or one cut short by an abort, has cut
off (`Bounds`); a result follows its call with no message of the user between
(`ResultFollows`), which is why a cut never falls between them but at a notice.
`GoalsInvariant`, `GoalsAlwaysKept`, for any tasks, dependencies, priorities and
concurrency: a scheduler that missed no event sees what the log says; and when it has heard
the last one nothing waits, whether or not it is still subscribed. The last
words are what makes it inductive: `stop()` and `start()` change nothing.

**SessionsProofs** (the index of the sessions, their contexts, and turns). `SessionsAlwaysSound`,
for logs and indexes of any size and wherever the process dies. A step is a chain of
methods on a record of the log and the manager's maps. Each maps a sound record to a sound
one grown from it: no event, session or start is taken back or changed, and an open session
may only end beyond what had been logged (`Follows`, `Grows`). A session is closed
only after an event appended since its start (`CloseLater`), hence start < end, and a
continuation names only a session closed before. Every save on the way is sound for the log
at that moment, so a death after any of them leaves a sound index, and the last save of an
operation holds all it changed (`SavesSound`). `SessionsInv` also says that a turn returns
to a session of the manager.
`ContextsNeverShrink`: a list of events is built along the log and a context along the
sessions it continues (`Listed`, `Context`, recursive functions), so what they hold is
proved by induction on each (`Induction` from the well-founded order of the numbers,
`Recursion` for the function that exists). From log to longer log the events a session
shows keep their places, and one that has ended shows no new ones (`ContextGrows`); that
`Grows` holds of what the database held before and after every step, one the process dies
in included, makes it a theorem about restarts as well.
`PromptAlwaysKeepsHistory`: `Writable` leads to an open session that is the active one or
continues it (`WritableKept`); between the choice and the message `TurnKept` says that the session
is still active and open unless somebody moved (`AskTurns`); and what is logged last in an
open session is the last of its context (`AskedIs`).
`TurnsAlwaysUndisturbed` needs `TurnKept` next to `SessionsInv`: until somebody moves it the active
session is the one the turn began in and still open, and only dispatches that moved it have one to
return to. A dispatch that finds a turn in progress leaves and comes back without ending the
session it left (`CreateThreadKept`, `SwitchKept`, `RestoredKept`); and a reply is the last that the
turn's session shows, though the way back may end that session right after (`ReplyLast`).

**InterfaceProofs** (what the interfaces keep of the programs behind them). `SidecarsAlwaysKept`, `SidecarsTypeCorrect`,
for any number of windows, directories and processes. A process that a request has just
started is in no other request, not in the map and not the guard's, and has no reader yet
(`Carried`); what is in the map is read, or about to be, and what is neither in it nor about
to come to it is dead or has lost its input (`MapSound`); a window that has not
subscribed yet, or whose `init` is under way, is told the end of its sidecar as well
(`Told`); and while a window joins a running sidecar the bridge already routes its commands
there (`Routed`). The property is about windows at rest; these say what a step
in between may leave undone.
`TerminalAlwaysSound`, for any messages, tool calls, limits and messages of the command
line. The runtime is summed up by what it is doing (`Doing`: nothing, a turn, the wait of
a retry, or a wait for something else) and by the number of compactions under way (`Going`); a
lemma for each handler of the runtime says how these two change (`NextTurn`, `RetryDue`,
`Settled`), and one for each handler of the interface what it shows then. The invariant
(`TerminalInv`) says that the handler of Escape and the one that is saved are a pair that can be
unwound (`EscapeSound`): the normal one; a retry's over the normal one; or a compaction's
over the normal one, with one compaction under way. Once a handler has been saved over another
the property promises less, and says so (`tangled`). It also says that no compaction outlives
its cycle but as an orphan (`IdleClear`), and that `flushCompactionQueue` finds the queue
empty as long as it has not prompted (`TextsInv`). It rests on the invariant of `ReactorProofs`,
which the interface keeps because every step of it is one that any client may take
(`InterfaceCalls`).

**Only model-checked:**

* Liveness: `AbortSettles`, `PromptSettles`, `TasksRun`, `Returns`. It rests on fairness
  and ENABLED, out of the prover's reach.
* `WorkIsPassedOn`, which needs of the engine under all commands what `FlowInv` says of one
  left to its timers: that what a step takes of a task is what it puts back.
* `SchedulingTypeOK` and `PartsTypeOK` join the type invariants of components; those of
  the components proved above are part of their invariants.

## 7. Not modelled, and the plan

Not modelled yet, and worth it:

1. Proofs of the engine's properties with commands, each where it holds.
2. `tasks.json`, which is unlinked before the rename, so a crash in between loses it.
3. `waitForCompactionEnd` of the RPC server, and the transport of requests between web
   views and sidecars.
4. Two processes in `Sessions`; a composition of the scheduler engine with an abstract
   prompt cycle.

Not planned: provider clients and message conversion, the intent classifier and intent
detection (tables and text matching), shell and search tools (child processes and text
output), extensions (user code), resources, models, export, and rendering:
I/O, parsing and formatting with no protocol of their own. They are a large share of
the source: the map covers the lines whose order or arithmetic decides something.
