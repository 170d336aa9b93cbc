--------------------------- MODULE MCScheduling ---------------------------
(***************************************************************************)
(* What starts work by itself, side by side for TLC: the scheduler's engine, *)
(* its search for the next slot, the scheduler of goals and the desktop's    *)
(* sidecars.  They share no state; a behaviour picks one of them.            *)
(***************************************************************************)
EXTENDS MCSchedulerEngine, MCSchedules, Goals, Sidecars

CONSTANTS
    g1, g2, g3,                 \* the tasks of a goal
    w1, w2, chat, project       \* windows and working directories

VARIABLE part

-----------------------------------------------------------------------------
\* g2 waits for g1, g1 is less urgent than g2 and more than g3.
MCGoalTasks == {g1, g2, g3}
MCDependsOn == (g1 :> {}) @@ (g2 :> {g1}) @@ (g3 :> {})
MCPriority == (g1 :> 1) @@ (g2 :> 0) @@ (g3 :> 2)

MCWindows == {w1, w2}
MCCwds == {chat, project}

\* What the theorems about Schedules suppose.
ASSUME SchedulesFit == SearchReaches /\ DelaysFit /\ MissesFit

MCSchedulingSymmetry == Permutations(Rooms) \cup Permutations(MCWindows)

-----------------------------------------------------------------------------
\* Where a part may begin in several ways, it begins in one while another moves.
SchedulingInit ==
    /\ part \in {"engine", "schedules", "goals", "sidecars"}
    /\ EngineInit /\ SchedulesInit /\ GoalsInit /\ SidecarsInit
    /\ part # "engine" => \A t \in InitTasks :
                             ~tasks[t].enabled /\ tasks[t].policy = "queue" /\ tasks[t].target = r1
    /\ part # "schedules" => plan = Daily
    /\ scheduled = {} \/ (part = "sidecars" /\ scheduled = MCCwds)

Moves(name, Next, v) == IF part = name THEN Next ELSE UNCHANGED v

SchedulingNext ==
    /\ UNCHANGED part
    /\ Moves("engine", EngineNext, evars)
    /\ Moves("schedules", SchedulesNext, scheduleVars)
    /\ Moves("goals", GoalsNext, goalVars)
    /\ Moves("sidecars", SidecarsNext, sidecarVars)

SchedulingVars == <<part, evars, scheduleVars, goalVars, sidecarVars>>

SchedulingSpec == SchedulingInit /\ [][SchedulingNext]_SchedulingVars

\* The shape of the state of every part; of the engine see EngineTypeOK.
SchedulingTypeOK == SchedulesTypeOK /\ GoalsTypeOK /\ SidecarsTypeOK
=============================================================================
