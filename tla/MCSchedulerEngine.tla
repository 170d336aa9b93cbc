------------------------- MODULE MCSchedulerEngine -------------------------
(* Instances of SchedulerEngine for TLC: two or three tasks, two sessions.  *)
EXTENDS SchedulerEngine

CONSTANTS t1, t2, t3, r1, r2

MCObjects ==
    [id : Tasks, timed : BOOLEAN, enabled : BOOLEAN, policy : TaskPolicies,
     target : TaskTargets \cup Rooms, version : 0 .. MaxOps]
MCSessions == Rooms \cup {Pending(t) : t \in Tasks}
MCSymmetry == Permutations(Rooms)
=============================================================================
