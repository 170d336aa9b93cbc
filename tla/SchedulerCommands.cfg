SPECIFICATION EngineSpec
CONSTANTS
    t1 = t1
    t2 = t2
    t3 = t3
    r1 = r1
    r2 = r2
    None = None
    Tasks = {t1, t2}
    Rooms = {r1, r2}
    Sessions <- MCSessions
    Objects <- MCObjects
    TaskPolicies = {"queue", "preempt"}
    TaskTargets = {r1}
    Timed = {t2}
    HasEnd = {}
    InitTasks = {t1, t2}
    Ops = {"create", "update", "delete", "runNow", "reload", "dispose"}
    MaxOps = 1
    MayMiss = TRUE
    MayContinue = FALSE
CHECK_DEADLOCK FALSE
INVARIANTS
    EngineTypeOK
PROPERTIES
    DisposeStopsDispatch
    WorkIsPassedOn
