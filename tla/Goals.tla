------------------------------- MODULE Goals -------------------------------
(***************************************************************************)
(* Goals and their tasks: the projection of the goal events                 *)
(* (core/projection/goal-projection.ts) and the scheduler that assigns      *)
(* ready tasks by appending events of its own (core/goal/scheduler.ts).     *)
(*                                                                         *)
(* The scheduler hears an event after its projection and answers within     *)
(* the notification; so an event and the answer are one step.  Planners,    *)
(* workers and reviewers are whoever appends the other events.              *)
(***************************************************************************)
EXTENDS Integers, FiniteSets

CONSTANTS
    GoalTasks,
    DependsOn,           \* the tasks each waits for
    Priority,            \* 0 for critical
    MaxConcurrency,
    MaxGoalEvents        \* bound: events from outside

ASSUME GoalsAssumption ==
    /\ IsFiniteSet(GoalTasks) /\ DependsOn \in [GoalTasks -> SUBSET GoalTasks]
    /\ Priority \in [GoalTasks -> Nat]
    /\ MaxConcurrency \in Nat \ {0} /\ MaxGoalEvents \in Nat

VARIABLES
    inLog,               \* goal and tasks by the whole event log,
    projected,           \* and by the scheduler's projection
    watching,            \* the scheduler and its projection are subscribed
    goalEvents,          \* the number of events from outside
    deaf,                \* an event came when it was not watching
    unheard              \* since it last chose, a task was created or cancelled: it does not listen to that

goalVars == <<inLog, projected, watching, goalEvents, deaf, unheard>>

-----------------------------------------------------------------------------
(* The projection                                                          *)

TaskStatus == {"none", "created", "assigned", "started", "in_progress", "completed",
               "failed", "rework", "accepted", "cancelled"}
GoalStatus == {"created", "planned", "running", "paused", "completed", "cancelled"}

GoalAfter == [GOAL_PLANNED |-> "planned", GOAL_PAUSED |-> "paused", GOAL_RESUMED |-> "running",
              GOAL_COMPLETED |-> "completed", GOAL_CANCELLED |-> "cancelled"]
TaskAfter == [TASK_CREATED |-> "created", TASK_ASSIGNED |-> "assigned", TASK_STARTED |-> "started",
              TASK_PROGRESS |-> "in_progress", TASK_COMPLETED |-> "completed",
              TASK_FAILED |-> "failed", TASK_REWORK_REQUESTED |-> "rework",
              TASK_ACCEPTED |-> "accepted", TASK_CANCELLED |-> "cancelled"]

OnGoal(v, type) == [v EXCEPT !.goal = GoalAfter[type]]

\* An event of a task it has not seen created changes nothing; the first task
\* that starts has the goal running.
OnTask(v, type, t) ==
    IF v.task[t] = "none" /\ type # "TASK_CREATED" THEN v
    ELSE [task |-> [v.task EXCEPT ![t] = TaskAfter[type]],
          goal |-> IF type = "TASK_STARTED" /\ v.goal = "planned" THEN "running" ELSE v.goal]

Done(v, t) == v.task[t] \in {"completed", "accepted"}
Ready(v) == {t \in GoalTasks : v.task[t] = "created" /\ \A d \in DependsOn[t] : Done(v, d)}
Running(v) == {t \in GoalTasks : v.task[t] \in {"assigned", "started", "in_progress"}}
Created(v) == {t \in GoalTasks : v.task[t] # "none"}

\* Every task is at its end, and there are some.
AllDone(v) == Created(v) # {} /\ \A t \in Created(v) : Done(v, t) \/ v.task[t] = "cancelled"

-----------------------------------------------------------------------------
(* The scheduler's choice                                                  *)

Assigned(v, S) == [v EXCEPT !.task = [t \in GoalTasks |-> IF t \in S THEN "assigned" ELSE v.task[t]]]

\* DefaultSchedulingPolicy: the most urgent, as many as there are slots.
Selected(v) ==
    LET slots == MaxConcurrency - Cardinality(Running(v))
        S == Ready(v)
        size == IF slots < 0 THEN 0 ELSE IF slots < Cardinality(S) THEN slots ELSE Cardinality(S)
    IN  {T \in SUBSET S : /\ Cardinality(T) = size
                          /\ \A t \in T, u \in S \ T : Priority[t] <= Priority[u]}

\* _tryDispatch, by the projection v; log is what the events before it made.
\* What it appends reaches a projection that is subscribed.
Dispatch(log, v) ==
    IF v.goal \in {"completed", "cancelled"} \/ (Ready(v) = {} /\ ~AllDone(v))
    THEN inLog' = log /\ projected' = v
    ELSE IF Ready(v) = {}
    THEN /\ inLog' = OnGoal(log, "GOAL_COMPLETED")
         /\ projected' = IF watching THEN OnGoal(v, "GOAL_COMPLETED") ELSE v
    ELSE \E T \in Selected(v) :
            /\ inLog' = Assigned(log, T)
            /\ projected' = IF watching THEN Assigned(v, T) ELSE v

\* A mistake: a failed task frees its slot, and nobody hears of it.
ListenedShort == {"GOAL_PLANNED", "TASK_COMPLETED", "TASK_ACCEPTED"}

\* What it listens to.
Listened == {"GOAL_PLANNED", "TASK_COMPLETED", "TASK_ACCEPTED", "TASK_FAILED"}

\* After these a task may be ready or the goal done, and it does not listen.
Ignored == {"TASK_CREATED", "TASK_CANCELLED"}

\* An event from outside that brings the log to log and the projection to v, of
\* a goal or a task that the projection knows or not.  The projection that
\* chooses has seen the event: it has subscribed before the scheduler.
AppendEvent(type, log, v, known) ==
    /\ goalEvents < MaxGoalEvents /\ goalEvents' = goalEvents + 1
    /\ IF watching
       THEN LET heard == type \in Listened /\ known
            IN  /\ IF heard THEN Dispatch(log, v) ELSE inLog' = log /\ projected' = v
                /\ unheard' = (~heard /\ (unheard \/ type \in Ignored))
            /\ UNCHANGED deaf
       ELSE /\ inLog' = log /\ deaf' = TRUE
            /\ UNCHANGED <<projected, unheard>>
    /\ UNCHANGED watching

GoalEventAppended(type) ==
    AppendEvent(type, OnGoal(inLog, type), OnGoal(projected, type), TRUE)

TaskEventAppended(type, t) ==
    AppendEvent(type, OnTask(inLog, type, t), OnTask(projected, type, t), projected.task[t] # "none")

-----------------------------------------------------------------------------
(* Planners, workers, reviewers, and the program around the scheduler      *)

Planner ==
    \/ inLog.goal = "created" /\ GoalEventAppended("GOAL_PLANNED")
    \/ inLog.goal \in {"planned", "running"} /\ GoalEventAppended("GOAL_PAUSED")
    \/ inLog.goal = "paused" /\ GoalEventAppended("GOAL_RESUMED")
    \/ inLog.goal \notin {"completed", "cancelled"} /\ GoalEventAppended("GOAL_CANCELLED")
    \/ \E t \in GoalTasks : inLog.task[t] = "none" /\ TaskEventAppended("TASK_CREATED", t)

\* A task that failed or is to be reworked is started again by its worker: the
\* scheduler does not assign it a second time.
Worker(t) ==
    \/ inLog.task[t] \in {"assigned", "failed", "rework"} /\ TaskEventAppended("TASK_STARTED", t)
    \/ /\ inLog.task[t] \in {"started", "in_progress"}
       /\ \E type \in {"TASK_PROGRESS", "TASK_COMPLETED", "TASK_FAILED"} : TaskEventAppended(type, t)

Reviewer(t) ==
    \/ /\ inLog.task[t] = "completed"
       /\ \E type \in {"TASK_ACCEPTED", "TASK_REWORK_REQUESTED"} : TaskEventAppended(type, t)
    \/ /\ inLog.task[t] \notin {"none", "completed", "accepted", "cancelled"}
       /\ TaskEventAppended("TASK_CANCELLED", t)

\* scheduleGoal; it may be called of a scheduler that does not watch.
ScheduleGoal ==
    /\ Dispatch(inLog, projected)
    /\ unheard' = FALSE
    /\ deaf' = (deaf \/ (~watching /\ inLog' # inLog))
    /\ UNCHANGED <<watching, goalEvents>>

StopWatching ==
    /\ watching /\ watching' = FALSE
    /\ UNCHANGED <<inLog, projected, goalEvents, deaf, unheard>>

\* start: subscribes again, and does not rebuild.
StartWatching ==
    /\ ~watching /\ watching' = TRUE
    /\ UNCHANGED <<inLog, projected, goalEvents, deaf, unheard>>

\* A new scheduler, after a restart of the program for example, reads the log
\* but chooses nothing until it hears something.
NewScheduler ==
    /\ projected' = inLog /\ watching' = TRUE /\ deaf' = FALSE /\ unheard' = TRUE
    /\ UNCHANGED <<inLog, goalEvents>>

GoalsInit ==
    /\ inLog = [goal |-> "created", task |-> [t \in GoalTasks |-> "none"]]
    /\ projected = inLog
    /\ watching = TRUE /\ goalEvents = 0 /\ deaf = FALSE /\ unheard = FALSE

GoalsNext ==
    \/ Planner
    \/ \E t \in GoalTasks : Worker(t) \/ Reviewer(t)
    \/ ScheduleGoal \/ StopWatching \/ StartWatching \/ NewScheduler

GoalsSpec == GoalsInit /\ [][GoalsNext]_goalVars

-----------------------------------------------------------------------------
(* Properties                                                              *)

GoalView == [goal : GoalStatus, task : [GoalTasks -> TaskStatus]]

GoalsTypeOK ==
    /\ inLog \in GoalView /\ projected \in GoalView
    /\ watching \in BOOLEAN /\ deaf \in BOOLEAN /\ unheard \in BOOLEAN
    /\ goalEvents \in 0 .. MaxGoalEvents

\* A scheduler that has missed nothing and heard the last event has left no
\* ready task without a worker while there is a slot, and no goal open whose
\* tasks are at their end (_tryDispatch).
NothingWaits ==
    watching /\ ~deaf /\ ~unheard /\ inLog.goal \in {"planned", "running", "paused"} =>
        /\ Ready(inLog) = {} \/ Cardinality(Running(inLog)) >= MaxConcurrency
        /\ ~AllDone(inLog)

\* A task is assigned once, after what it depends on and within the limit, and a
\* goal is declared completed when its tasks are, by the log and not only by what
\* the scheduler has seen of it; except after it has missed an event.
AssignedInTurn ==
    ~deaf =>
        LET new == {t \in GoalTasks : inLog.task[t] # "assigned" /\ inLog'.task[t] = "assigned"}
        IN  /\ \A t \in new : inLog.task[t] = "created" /\ \A d \in DependsOn[t] : Done(inLog', d)
            /\ new # {} => Cardinality(Running(inLog')) <= MaxConcurrency
            /\ inLog.goal # "completed" /\ inLog'.goal = "completed" => AllDone(inLog')

\* Goals advance, and only as their tasks allow.
GoalsKept == [][NothingWaits' /\ AssignedInTurn]_goalVars

=============================================================================
