SPECIFICATION EngineSpec
CONSTANTS
    t1 = t1
    t2 = t2
    t3 = t3
    r1 = r1
    r2 = r2
    None = None
    Tasks = {t1, t2}
    Rooms = {r1, r2}
    Sessions <- MCSessions
    Objects <- MCObjects
    TaskPolicies = {"skip"}
    TaskTargets = {r1}
    Timed = {}
    HasEnd = {}
    InitTasks = {t1, t2}
    Ops = {"update", "delete"}
    MaxOps = 1
    MayMiss = FALSE
    MayContinue = FALSE
SYMMETRY MCSymmetry
INVARIANTS
    LastCommandStands
CHECK_DEADLOCK FALSE
