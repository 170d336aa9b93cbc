SPECIFICATION SchedulingSpec
CONSTANTS
    t1 = t1
    t2 = t2
    t3 = t3
    r1 = r1
    r2 = r2
    None = None
    Tasks = {t1, t2, t3}
    Rooms = {r1, r2}
    Sessions <- MCSessions
    Objects <- MCObjects
    TaskPolicies = {"skip", "queue", "preempt"}
    TaskTargets = {r1, r2, "new"}
    Timed = {t1, t3}
    HasEnd = {t1}
    InitTasks = {t1, t2}
    Ops = {"create"}
    MaxOps = 1
    MayMiss = FALSE
    MayContinue = FALSE
    TicksPerMinute = 2
    MinutesPerHour = 3
    HoursPerDay = 2
    DaysPerWeek = 3
    MonthDays <- MCMonthDays
    Offset = 1
    MaxAhead = 30
    MaxDelay = 1000
    MaxMissed = 50
    MaxRunTicks = 14
    LastInstant = 64
    Plans <- MCPlans
    g1 = g1
    g2 = g2
    g3 = g3
    GoalTasks <- MCGoalTasks
    DependsOn <- MCDependsOn
    Priority <- MCPriority
    MaxConcurrency = 1
    MaxGoalEvents = 7
    w1 = w1
    w2 = w2
    chat = chat
    project = project
    Windows <- MCWindows
    Cwds <- MCCwds
    NoCwd = NoCwd
    Chat = chat
    MaxSpawns = 3
    MaxEvents = 3
SYMMETRY MCSchedulingSymmetry
CHECK_DEADLOCK FALSE
INVARIANTS
    SchedulingTypeOK
    TasksFireOnce
    RunsHoldLocks
    TimerIsForNextSlot
    SidecarsKept
PROPERTIES
    SlotsKept
    GoalsKept
