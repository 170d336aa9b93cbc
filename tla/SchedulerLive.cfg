SPECIFICATION FairEngineSpec
CONSTANTS
    t1 = t1
    t2 = t2
    t3 = t3
    r1 = r1
    r2 = r2
    None = None
    Tasks = {t1, t2, t3}
    Rooms = {r1, r2}
    Sessions <- MCSessions
    Objects <- MCObjects
    TaskPolicies = {"queue", "preempt"}
    TaskTargets = {r1, "new"}
    Timed = {}
    HasEnd = {t1}
    InitTasks = {t1, t2}
    Ops = {"create"}
    MaxOps = 1
    MayMiss = FALSE
    MayContinue = FALSE
CHECK_DEADLOCK FALSE
INVARIANTS
    StaysScheduled
    OneRecordPerRun
PROPERTIES
    TasksRun
