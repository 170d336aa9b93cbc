------------------------ MODULE SchedulerFlowProofs ------------------------
(***************************************************************************)
(* The scheduler engine fires each slot once, keeps runs and locks together, *)
(* records each run once and forgets no task, as long as the user's only     *)
(* command is create, load() finds no missed run and a pinned session is     *)
(* not continued in another one: the uses in which the code keeps them.      *)
(***************************************************************************)
EXTENDS SchedulerEngineProofs, FiniteSetTheorems

OnlyCreates == Ops \subseteq {"create"} /\ ~MayMiss /\ ~MayContinue

Running(E, t) == \E i \in DOMAIN E.runs : E.runs[i].task.id = t
Waiting(E, t) == \E s \in Sessions : IsQueued(E.locks, t, s)
Idle(E, t) == E.tracked[t] = <<>> /\ ~Running(E, t) /\ ~Waiting(E, t)

-----------------------------------------------------------------------------
(* The invariant: a task has a timer, or one run, or one place in a queue.  *)

TimersSound(E) ==
    \A t \in Tasks :
        /\ E.loose[t] = <<>> /\ E.catchup[t] = 0 /\ Len(E.tracked[t]) <= 1
        /\ E.tracked[t] # <<>> => /\ E.tasks[t] # None /\ E.tracked[t][1].id = t
                                  /\ ~Running(E, t) /\ ~Waiting(E, t)

\* The stored tasks are of a set of ids, with what the user may have given them.
Known(E, ids) ==
    \A t \in Tasks : E.tasks[t] # None =>
        /\ E.tasks[t].id = t /\ E.tasks[t].policy \in TaskPolicies
        /\ E.tasks[t].timed => t \in Timed
        /\ t \in ids

TasksSound(E) == Known(E, created)

\* A run is of the stored task, and alone of it.
RunsSound(E) ==
    \A i \in DOMAIN E.runs :
        /\ E.runs[i].task = E.tasks[E.runs[i].task.id]
        /\ E.runs[i].key = LockKey(E.runs[i].task)
        /\ ~Waiting(E, E.runs[i].task.id)
        /\ \A j \in DOMAIN E.runs : E.runs[j].task.id = E.runs[i].task.id => j = i

\* What waits is the stored task, at its own key.
QueuesSound(E) ==
    \A s \in Sessions : \A i \in DOMAIN E.locks.queue[s] :
        /\ E.locks.queue[s][i] = E.tasks[E.locks.queue[s][i].id]
        /\ Supported(E.locks.queue[s][i]) /\ LockKey(E.locks.queue[s][i]) = s

\* A held lock has a run, but for task x, and a run its lock, unless timed out.
HoldersRun(E, x) ==
    \A s \in Sessions : E.locks.holder[s] # None =>
        /\ E.locks.index[E.locks.holder[s]] = s
        /\ E.locks.holder[s] # x =>
              \E i \in DOMAIN E.runs : E.runs[i].task.id = E.locks.holder[s] /\ E.runs[i].key = s

RunsHold(E) ==
    \A i \in DOMAIN E.runs :
        \/ E.locks.index[E.runs[i].task.id] = E.runs[i].key
        \/ E.locks.index[E.runs[i].task.id] = None /\ E.runs[i].task.id \in E.timedOut

TimeoutsSound(E, x) == \A t \in E.timedOut : t = x \/ Running(E, t)

\* Unless overlapping runs are skipped, no task but x is forgotten.
Scheduled(E, x) ==
    "skip" \notin TaskPolicies =>
        \A t \in Tasks : t # x /\ E.tasks[t] # None /\ HasNextRun(E.tasks[t]) /\ Supported(E.tasks[t])
            => E.tracked[t] # <<>> \/ Running(E, t) \/ Waiting(E, t)

\* If no task has a timeout, exactly the runs still to be recorded are owed.
Recorded(E, x) ==
    Timed = {} =>
        /\ E.locks.armed = {}
        /\ \A t \in E.timedOut : E.locks.index[t] = None
        /\ \A t \in Tasks : t # x =>
              E.owed[t] = IF Running(E, t) /\ t \notin E.timedOut THEN 1 ELSE 0

Shared(E) == TimersSound(E) /\ TasksSound(E) /\ RunsSound(E) /\ QueuesSound(E) /\ RunsHold(E)

Flow(E) ==
    /\ Shared(E) /\ HoldersRun(E, None) /\ TimeoutsSound(E, None)
    /\ Scheduled(E, None) /\ Recorded(E, None)

FlowInv == ~disposed /\ Flow(Now)

-----------------------------------------------------------------------------
(* What the operators change.                                              *)

LEMMA TaskFacts ==
    ASSUME NEW E \in EngineStates
    PROVE  /\ E.tasks \in [Tasks -> Rec \cup {None}] /\ E.tracked \in [Tasks -> Seq(Rec)]
           /\ E.loose \in [Tasks -> Seq(Rec)] /\ E.catchup \in [Tasks -> Nat]
           /\ E.runs \in Seq(RunRec) /\ DOMAIN E.runs = 1 .. Len(E.runs) /\ Len(E.runs) \in Nat
           /\ \A i \in DOMAIN E.runs : /\ E.runs[i] \in RunRec /\ E.runs[i].task \in Rec
                                       /\ Supported(E.runs[i].task) /\ E.runs[i].task.id \in Tasks
                                       /\ E.runs[i].key \in Sessions
           /\ E.timedOut \in SUBSET Tasks /\ E.owed \in [Tasks -> (-1) .. MaxOwed]
           /\ None \notin Rec /\ None \notin Tasks /\ None \notin Sessions
<1>1. /\ E.tasks \in [Tasks -> Rec \cup {None}] /\ E.tracked \in [Tasks -> Seq(Rec)]
      /\ E.loose \in [Tasks -> Seq(Rec)] /\ E.catchup \in [Tasks -> Nat]
      /\ E.runs \in Seq(RunRec)
      /\ E.timedOut \in SUBSET Tasks /\ E.owed \in [Tasks -> (-1) .. MaxOwed]
  BY DEF EngineStates
<1>2. DOMAIN E.runs = 1 .. Len(E.runs) /\ Len(E.runs) \in Nat
  BY <1>1, LenProperties
<1>3. \A i \in DOMAIN E.runs : E.runs[i] \in RunRec
  BY <1>1, <1>2, ElementOfSeq
<1>4. \A r \in RunRec : r.task \in Rec /\ Supported(r.task) /\ r.task.id \in Tasks /\ r.key \in Sessions
  BY DEF RunRec, Rec
<1>5. None \notin Rec /\ None \notin Tasks /\ None \notin Sessions
  BY EngineAssumption, LocksAssumption
<1> QED BY <1>1, <1>2, <1>3, <1>4, <1>5

LEMMA LockFacts ==
    ASSUME NEW E \in EngineStates
    PROVE  /\ E.locks.holder \in [Sessions -> Tasks \cup {None}]
           /\ E.locks.queue \in [Sessions -> Seq(Rec)]
           /\ E.locks.index \in [Tasks -> Sessions \cup {None}]
           /\ E.locks.armed \in SUBSET Sessions
           /\ \A t \in Tasks : E.locks.index[t] # None => E.locks.holder[E.locks.index[t]] = t
           /\ \A s \in Sessions : E.locks.queue[s] # <<>> => E.locks.holder[s] # None
           /\ \A s \in Sessions : /\ DOMAIN E.locks.queue[s] = 1 .. Len(E.locks.queue[s])
                                  /\ Len(E.locks.queue[s]) \in Nat
                                  /\ \A i \in DOMAIN E.locks.queue[s] : E.locks.queue[s][i] \in Rec
<1>1. E.locks \in Shape(Rec) /\ Coherent(E.locks, Rec)
  BY DEF EngineStates, Managers
<1>2. E.locks.queue \in [Sessions -> Seq(Rec)]
  BY <1>1 DEF Shape
<1>3. \A q \in Seq(Rec) : DOMAIN q = 1 .. Len(q) /\ Len(q) \in Nat /\ \A i \in DOMAIN q : q[i] \in Rec
  BY LenProperties, ElementOfSeq
<1>4. \A s \in Sessions : E.locks.queue[s] \in Seq(Rec)
  BY <1>2
<1> QED BY <1>1, <1>2, <1>3, <1>4 DEF Shape, Coherent, Base

LEMMA StartRunFields ==
    ASSUME NEW E \in EngineStates, NEW task, NEW key, NEW manual
    PROVE  LET F == StartRun(E, task, key, manual)
           IN  /\ F.runs = Append(E.runs, [task |-> task, key |-> key, manual |-> manual,
                                           started |-> FALSE, aborted |-> FALSE])
               /\ F.owed = [E.owed EXCEPT ![task.id] = More(E.owed[task.id])]
               /\ F.tasks = E.tasks /\ F.tracked = E.tracked /\ F.loose = E.loose
               /\ F.catchup = E.catchup /\ F.timedOut = E.timedOut /\ F.locks = E.locks
BY DEF StartRun, EngineStates

LEMMA AbortTurnKeeps ==
    ASSUME NEW rs \in Seq(RunRec)
    PROVE  /\ DOMAIN AbortTurn(rs) = DOMAIN rs /\ Len(AbortTurn(rs)) = Len(rs)
           /\ \A i \in DOMAIN rs : /\ AbortTurn(rs)[i].task = rs[i].task
                                   /\ AbortTurn(rs)[i].key = rs[i].key
                                   /\ AbortTurn(rs)[i].started = rs[i].started
<1>1. \A i \in DOMAIN rs : rs[i] \in RunRec
  BY LenProperties, ElementOfSeq
<1>2. DOMAIN AbortTurn(rs) = DOMAIN rs
  BY DEF AbortTurn
<1>3. Len(AbortTurn(rs)) = Len(rs)
  BY <1>2, AbortTurnType, LenProperties
<1>4. CASE ~(rs # <<>> /\ rs[1].started)
  BY <1>2, <1>3, <1>4 DEF AbortTurn
<1>5. CASE rs # <<>> /\ rs[1].started
  <2>1. AbortTurn(rs) = [rs EXCEPT ![1] = [rs[1] EXCEPT !.aborted = TRUE]]
    BY <1>5 DEF AbortTurn
  <2>2. 1 \in DOMAIN rs /\ rs[1] \in RunRec
    BY <1>1, <1>5, EmptySeq, LenProperties
  <2> DEFINE r == [rs[1] EXCEPT !.aborted = TRUE]
  <2>3. r.task = rs[1].task /\ r.key = rs[1].key /\ r.started = rs[1].started
    BY <2>2 DEF RunRec
  <2> HIDE DEF r
  <2>4. AbortTurn(rs) = [rs EXCEPT ![1] = r]
    BY <2>1 DEF r
  <2> QED BY <2>3, <2>4, <1>2, <1>3
<1> QED BY <1>4, <1>5

LEMMA HandleTimeoutFields ==
    ASSUME NEW E \in EngineStates, NEW t \in Tasks, E.tasks[t] # None
    PROVE  LET F == HandleTimeout(E, t)
           IN  /\ F.runs = AbortTurn(E.runs) /\ F.timedOut = E.timedOut \cup {t}
               /\ F.owed = [E.owed EXCEPT ![t] = Less(E.owed[t])]
               /\ F.tasks = E.tasks /\ F.tracked = E.tracked /\ F.loose = E.loose
               /\ F.catchup = E.catchup /\ F.locks = E.locks
BY DEF HandleTimeout, EngineStates

LEMMA ScheduleOneFields ==
    ASSUME NEW E \in EngineStates, NEW task \in Rec,
           HasNextRun(task), ~disposed, Supported(task)
    PROVE  LET F == ScheduleOne(E, task)
           IN  /\ F.tracked = [E.tracked EXCEPT ![task.id] = <<task>>]
               /\ F.loose = [E.loose EXCEPT ![task.id] = E.loose[task.id] \o E.tracked[task.id]]
               /\ F.tasks = E.tasks /\ F.runs = E.runs /\ F.timedOut = E.timedOut
               /\ F.owed = E.owed /\ F.catchup = E.catchup /\ F.locks = E.locks
BY DEF ScheduleOne, EngineStates

-----------------------------------------------------------------------------
(* fireTask.                                                               *)

\* A task that holds its lock and has no timer, run or place starts its run.
LEMMA StartFlow ==
    ASSUME NEW E \in EngineStates, NEW task \in Rec, NEW manual \in BOOLEAN,
           Supported(task), E.tasks[task.id] = task, Idle(E, task.id),
           E.locks.index[task.id] = LockKey(task), Shared(E), HoldersRun(E, task.id),
           TimeoutsSound(E, None), Scheduled(E, task.id), Recorded(E, None)
    PROVE  Flow(StartRun(E, task, LockKey(task), manual))
<1> DEFINE t == task.id
           n == Len(E.runs) + 1
           r == [task |-> task, key |-> LockKey(task), manual |-> manual,
                 started |-> FALSE, aborted |-> FALSE]
           F == StartRun(E, task, LockKey(task), manual)
<1>1. /\ F.runs = Append(E.runs, r) /\ F.owed = [E.owed EXCEPT ![t] = More(E.owed[t])]
      /\ F.tasks = E.tasks /\ F.tracked = E.tracked /\ F.loose = E.loose
      /\ F.catchup = E.catchup /\ F.timedOut = E.timedOut /\ F.locks = E.locks
  BY DEF StartRun, EngineStates
<1>2. r \in RunRec /\ r.task = task /\ r.key = LockKey(task) /\ t \in Tasks
  BY LockKeySession DEF RunRec, Rec
<1> HIDE DEF F, r
<1>3. /\ Append(E.runs, r) \in Seq(RunRec) /\ Len(Append(E.runs, r)) = n
      /\ \A i \in 1 .. Len(E.runs) : Append(E.runs, r)[i] = E.runs[i]
      /\ Append(E.runs, r)[n] = r
  BY <1>2, TaskFacts, AppendProperties
<1>4. /\ DOMAIN F.runs = DOMAIN E.runs \cup {n} /\ n \notin DOMAIN E.runs /\ F.runs[n] = r
      /\ \A i \in DOMAIN E.runs : F.runs[i] = E.runs[i]
  BY <1>1, <1>3, TaskFacts, LenProperties
<1> HIDE DEF n
<1>5. \A u : /\ Running(F, u) <=> Running(E, u) \/ u = t
             /\ Waiting(F, u) <=> Waiting(E, u)
  BY <1>1, <1>2, <1>4 DEF Running, Waiting
<1>6. TimersSound(F)
  BY <1>1, <1>5 DEF TimersSound, Shared, Idle
<1>7. TasksSound(F)
  BY <1>1 DEF TasksSound, Known, Shared
<1>8. RunsSound(F)
  <2>1. \A i \in DOMAIN E.runs : E.runs[i].task.id # t
    BY DEF Idle, Running
  <2> SUFFICES ASSUME NEW i \in DOMAIN F.runs
               PROVE  /\ F.runs[i].task = F.tasks[F.runs[i].task.id]
                      /\ F.runs[i].key = LockKey(F.runs[i].task)
                      /\ ~Waiting(F, F.runs[i].task.id)
                      /\ \A j \in DOMAIN F.runs : F.runs[j].task.id = F.runs[i].task.id => j = i
    BY DEF RunsSound
  <2>2. CASE i = n
    BY <1>1, <1>2, <1>4, <1>5, <2>1, <2>2 DEF Idle
  <2>3. CASE i \in DOMAIN E.runs
    BY <1>1, <1>2, <1>4, <1>5, <2>1, <2>3 DEF Shared, RunsSound
  <2> QED BY <1>4, <2>2, <2>3
<1>9. QueuesSound(F)
  BY <1>1 DEF QueuesSound, Shared
<1>10. RunsHold(F)
  BY <1>1, <1>2, <1>4 DEF RunsHold, Shared
<1>11. HoldersRun(F, None)
  <2> SUFFICES ASSUME NEW s \in Sessions, E.locks.holder[s] # None
               PROVE  /\ E.locks.index[E.locks.holder[s]] = s
                      /\ \E i \in DOMAIN F.runs : /\ F.runs[i].task.id = E.locks.holder[s]
                                                  /\ F.runs[i].key = s
    BY <1>1 DEF HoldersRun
  <2>1. E.locks.index[E.locks.holder[s]] = s
    BY DEF HoldersRun
  <2>2. CASE E.locks.holder[s] = t
    BY <1>2, <1>4, <2>1, <2>2
  <2>3. CASE E.locks.holder[s] # t
    BY <1>4, <2>1, <2>3 DEF HoldersRun
  <2> QED BY <2>2, <2>3
<1>12. TimeoutsSound(F, None)
  BY <1>1, <1>5 DEF TimeoutsSound
<1>13. Scheduled(F, None)
  BY <1>1, <1>5 DEF Scheduled
<1>14. Recorded(F, None)
  <2>1. t \notin E.timedOut
    BY <1>2, TaskFacts DEF TimeoutsSound, Idle
  <2> SUFFICES ASSUME Timed = {}
               PROVE  /\ E.locks.armed = {}
                      /\ \A u \in E.timedOut : E.locks.index[u] = None
                      /\ \A u \in Tasks : u # None =>
                            F.owed[u] = IF Running(F, u) /\ u \notin E.timedOut THEN 1 ELSE 0
    BY <1>1 DEF Recorded
  <2>2. ASSUME NEW u \in Tasks, u # None
        PROVE  F.owed[u] = IF Running(F, u) /\ u \notin E.timedOut THEN 1 ELSE 0
    <3>1. E.owed[u] = IF Running(E, u) /\ u \notin E.timedOut THEN 1 ELSE 0
      BY <2>2 DEF Recorded
    <3>2. CASE u = t
      <4>1. E.owed[t] = 0
        BY <3>1, <3>2 DEF Idle
      <4> QED BY <1>1, <1>2, <1>5, <2>1, <3>2, <4>1, TaskFacts DEF More, MaxOwed
    <3>3. CASE u # t
      BY <1>1, <1>5, <3>1, <3>3, TaskFacts
    <3> QED BY <3>2, <3>3
  <2> QED BY <2>2 DEF Recorded
<1> QED BY <1>6, <1>7, <1>8, <1>9, <1>10, <1>11, <1>12, <1>13, <1>14 DEF Flow, Shared, F

\* Task is about to start: nothing of it is under way, but its lock may be held.
Ready(E, task) ==
    /\ E.tasks[task.id] = task /\ Supported(task) /\ Idle(E, task.id)
    /\ Shared(E) /\ HoldersRun(E, task.id) /\ TimeoutsSound(E, None)
    /\ Scheduled(E, task.id) /\ Recorded(E, None)

\* F is E with the lock of key given to task t, taken from its holder if it has one.
Taken(E, F, t, key) ==
    LET v == E.locks.holder[key]
    IN  /\ F.tasks = E.tasks /\ F.tracked = E.tracked /\ F.loose = E.loose
        /\ F.catchup = E.catchup /\ DOMAIN F.runs = DOMAIN E.runs
        /\ \A i \in DOMAIN E.runs : /\ F.runs[i].task = E.runs[i].task
                                    /\ F.runs[i].key = E.runs[i].key
        /\ F.locks.queue = E.locks.queue
        /\ F.locks.holder = [E.locks.holder EXCEPT ![key] = t] /\ F.locks.index[t] = key
        /\ \A u \in Tasks \ {t} : F.locks.index[u] = IF u = v THEN None ELSE E.locks.index[u]
        /\ Timed = {} /\ E.locks.armed = {} => F.locks.armed = {}
        /\ F.timedOut = E.timedOut \cup ({v} \ {None})
        /\ \A u \in Tasks : F.owed[u] = IF u = v THEN Less(E.owed[u]) ELSE E.owed[u]

LEMMA TakenReady ==
    ASSUME NEW E \in EngineStates, NEW F \in EngineStates, NEW task \in Rec,
           Ready(E, task), HoldersRun(E, None), Taken(E, F, task.id, LockKey(task))
    PROVE  Ready(F, task) /\ F.locks.index[task.id] = LockKey(task)
<1> DEFINE t == task.id
           key == LockKey(task)
           v == E.locks.holder[key]
<1>1. t \in Tasks /\ key \in Sessions /\ Supported(task)
  BY LockKeySession DEF Rec, Ready
<1>2. v = None \/ v \in Tasks
  BY <1>1, LockFacts
<1>3. /\ F.tasks = E.tasks /\ F.tracked = E.tracked /\ F.loose = E.loose
      /\ F.catchup = E.catchup /\ DOMAIN F.runs = DOMAIN E.runs
      /\ \A i \in DOMAIN E.runs : F.runs[i].task = E.runs[i].task /\ F.runs[i].key = E.runs[i].key
      /\ F.locks.queue = E.locks.queue
      /\ F.locks.holder = [E.locks.holder EXCEPT ![key] = t] /\ F.locks.index[t] = key
      /\ \A u \in Tasks \ {t} : F.locks.index[u] = IF u = v THEN None ELSE E.locks.index[u]
      /\ Timed = {} /\ E.locks.armed = {} => F.locks.armed = {}
      /\ F.timedOut = E.timedOut \cup ({v} \ {None})
      /\ \A u \in Tasks : F.owed[u] = IF u = v THEN Less(E.owed[u]) ELSE E.owed[u]
  BY DEF Taken
<1>4. \A u : (Running(F, u) <=> Running(E, u)) /\ (Waiting(F, u) <=> Waiting(E, u))
  <2>1. \A u : Running(F, u) <=> Running(E, u)
    BY <1>3 DEF Running
  <2>2. \A u : Waiting(F, u) <=> Waiting(E, u)
    <3>1. F.locks.queue = E.locks.queue
      BY <1>3
    <3> QED BY <3>1 DEF Waiting, IsQueued
  <2> QED BY <2>1, <2>2
<1>5. Idle(E, t) /\ Idle(F, t)
  BY <1>3, <1>4 DEF Ready, Idle
<1>6. v # None => /\ v # t /\ E.locks.index[v] = key
                  /\ \E i \in DOMAIN E.runs : E.runs[i].task.id = v /\ E.runs[i].key = key
  <2>1. v # None => /\ E.locks.index[v] = key
                    /\ \E i \in DOMAIN E.runs : E.runs[i].task.id = v /\ E.runs[i].key = key
    BY <1>1 DEF HoldersRun
  <2>2. \A i \in DOMAIN E.runs : E.runs[i].task.id # t
    BY <1>5 DEF Idle, Running
  <2> QED BY <2>1, <2>2
<1>7. TimersSound(F) /\ TasksSound(F) /\ QueuesSound(F)
  BY <1>3, <1>4 DEF TimersSound, TasksSound, Known, QueuesSound, Ready, Shared
<1>8. RunsSound(F)
  BY <1>3, <1>4 DEF RunsSound, Ready, Shared
<1>9. RunsHold(F)
  <2> SUFFICES ASSUME NEW i \in DOMAIN E.runs
               PROVE  \/ F.locks.index[E.runs[i].task.id] = E.runs[i].key
                      \/ F.locks.index[E.runs[i].task.id] = None /\ E.runs[i].task.id \in F.timedOut
    BY <1>3 DEF RunsHold
  <2> DEFINE u == E.runs[i].task.id
  <2>1. u \in Tasks /\ u # t /\ u # None
    BY <1>5, TaskFacts DEF Idle, Running
  <2>2. \/ E.locks.index[u] = E.runs[i].key
        \/ E.locks.index[u] = None /\ u \in E.timedOut
    BY DEF Ready, Shared, RunsHold
  <2> HIDE DEF u
  <2>3. CASE u = v
    BY <1>3, <2>1, <2>3 DEF u
  <2>4. CASE u # v
    BY <1>3, <2>1, <2>2, <2>4 DEF u
  <2> QED BY <2>3, <2>4
<1>10. HoldersRun(F, t)
  <2> SUFFICES ASSUME NEW s \in Sessions, F.locks.holder[s] # None, F.locks.holder[s] # t
               PROVE  /\ F.locks.index[F.locks.holder[s]] = s
                      /\ \E i \in DOMAIN E.runs : /\ E.runs[i].task.id = F.locks.holder[s]
                                                  /\ E.runs[i].key = s
    <3>1. \A s \in Sessions : F.locks.holder[s] = t => s = key
      <4>1. \A s \in Sessions : E.locks.holder[s] # t
        BY <1>1, <1>5, TaskFacts DEF HoldersRun, Idle, Running
      <4> QED BY <1>3, <1>1, <4>1, LockFacts
    <3> QED BY <1>3, <3>1 DEF HoldersRun
  <2> DEFINE w == E.locks.holder[s]
  <2>1. s # key /\ F.locks.holder[s] = w
    BY <1>1, <1>3, LockFacts
  <2>2. w \in Tasks /\ w # t /\ E.locks.index[w] = s
        /\ \E i \in DOMAIN E.runs : E.runs[i].task.id = w /\ E.runs[i].key = s
    BY <2>1, LockFacts DEF HoldersRun
  <2>3. w # v
    BY <1>6, <2>1, <2>2
  <2> HIDE DEF w, v
  <2> QED BY <1>3, <2>1, <2>2, <2>3
<1>11. TimeoutsSound(F, None)
  BY <1>3, <1>4, <1>6 DEF TimeoutsSound, Ready, Running
<1>12. Scheduled(F, t)
  BY <1>3, <1>4 DEF Scheduled, Ready
<1>13. Recorded(F, None)
  <2> SUFFICES ASSUME Timed = {}
               PROVE  /\ F.locks.armed = {}
                      /\ \A u \in F.timedOut : F.locks.index[u] = None
                      /\ \A u \in Tasks : u # None =>
                            F.owed[u] = IF Running(F, u) /\ u \notin F.timedOut THEN 1 ELSE 0
    BY DEF Recorded
  <2>1. /\ E.locks.armed = {} /\ \A u \in E.timedOut : E.locks.index[u] = None
        /\ \A u \in Tasks : u # None =>
              E.owed[u] = IF Running(E, u) /\ u \notin E.timedOut THEN 1 ELSE 0
    BY DEF Recorded, Ready
  <2>2. t \notin E.timedOut
    BY <1>1, <1>5, TaskFacts DEF TimeoutsSound, Ready, Idle
  <2>3. \A u \in F.timedOut : F.locks.index[u] = None
    BY <1>2, <1>3, <1>6, <2>1, <2>2, TaskFacts
  <2>4. ASSUME NEW u \in Tasks, u # None
        PROVE  F.owed[u] = IF Running(F, u) /\ u \notin F.timedOut THEN 1 ELSE 0
    <3>1. E.owed[u] = IF Running(E, u) /\ u \notin E.timedOut THEN 1 ELSE 0
      BY <2>1, <2>4
    <3>2. CASE u = v
      <4>1. Running(E, u) /\ u \notin E.timedOut
        BY <1>1, <1>6, <2>1, <2>4, <3>2, TaskFacts DEF Running
      <4>2. Less(E.owed[u]) = 0
        BY <3>1, <4>1 DEF Less
      <4> QED BY <1>3, <2>4, <3>2, <4>2
    <3>3. CASE u # v
      BY <1>3, <1>4, <3>1, <3>3
    <3> QED BY <3>2, <3>3
  <2> QED BY <1>3, <2>1, <2>3, <2>4
<1> QED BY <1>1, <1>3, <1>5, <1>7, <1>8, <1>9, <1>10, <1>11, <1>12, <1>13 DEF Ready, Shared

\* A task whose session is taken waits for it.
LEMMA QueueFlow ==
    ASSUME NEW E \in EngineStates, NEW F \in EngineStates, NEW task \in Rec,
           Ready(E, task), HoldersRun(E, None),
           F.tasks = E.tasks, F.tracked = E.tracked, F.loose = E.loose, F.catchup = E.catchup,
           F.runs = E.runs, F.timedOut = E.timedOut, F.owed = E.owed,
           F.locks = Enqueue(E.locks, task, LockKey(task))
    PROVE  Flow(F)
<1> DEFINE t == task.id
           key == LockKey(task)
           q == E.locks.queue[key]
           n == Len(q) + 1
<1>1. t \in Tasks /\ key \in Sessions /\ Supported(task)
  BY LockKeySession DEF Rec, Ready
<1>2. Idle(E, t) /\ ~IsQueued(E.locks, t, key)
  BY <1>1 DEF Ready, Idle, Waiting
<1>3. /\ F.locks.holder = E.locks.holder /\ F.locks.index = E.locks.index
      /\ F.locks.armed = E.locks.armed
      /\ F.locks.queue = [E.locks.queue EXCEPT ![key] = Append(q, task)]
  BY <1>2 DEF Enqueue
<1>4. q \in Seq(Rec) /\ DOMAIN q = 1 .. Len(q) /\ Len(q) \in Nat
  BY <1>1, LockFacts
<1>5. /\ Append(q, task) \in Seq(Rec) /\ Len(Append(q, task)) = n
      /\ \A i \in 1 .. Len(q) : Append(q, task)[i] = q[i]
      /\ Append(q, task)[n] = task
  BY <1>4, AppendProperties
<1>6. /\ DOMAIN F.locks.queue[key] = DOMAIN q \cup {n} /\ F.locks.queue[key][n] = task
      /\ \A i \in DOMAIN q : F.locks.queue[key][i] = q[i]
      /\ \A s \in Sessions \ {key} : F.locks.queue[s] = E.locks.queue[s]
  BY <1>1, <1>3, <1>4, <1>5, LockFacts, LenProperties
<1> HIDE DEF n, q
<1>7. \A s \in Sessions : \A u : IsQueued(F.locks, u, s) <=> IsQueued(E.locks, u, s) \/ (s = key /\ u = t)
  <2> TAKE s \in Sessions
  <2> TAKE u
  <2>1. CASE s = key
    BY <1>6, <2>1 DEF IsQueued, q
  <2>2. CASE s # key
    <3>1. F.locks.queue[s] = E.locks.queue[s]
      BY <1>6, <2>2
    <3> QED BY <2>2, <3>1 DEF IsQueued
  <2> QED BY <2>1, <2>2
<1>8. \A u : Waiting(F, u) <=> Waiting(E, u) \/ u = t
  BY <1>1, <1>7 DEF Waiting
<1>9. \A u : Running(F, u) <=> Running(E, u)
  BY DEF Running
<1>10. TimersSound(F) /\ TasksSound(F)
  BY <1>2, <1>8, <1>9 DEF TimersSound, TasksSound, Known, Ready, Shared, Idle
<1>11. RunsSound(F)
  <2>1. \A i \in DOMAIN E.runs : E.runs[i].task.id # t
    BY <1>2 DEF Idle, Running
  <2> QED BY <1>8, <2>1 DEF RunsSound, Ready, Shared
<1>12. QueuesSound(F)
  <2> SUFFICES ASSUME NEW s \in Sessions, NEW i \in DOMAIN F.locks.queue[s]
               PROVE  /\ F.locks.queue[s][i] = F.tasks[F.locks.queue[s][i].id]
                      /\ Supported(F.locks.queue[s][i]) /\ LockKey(F.locks.queue[s][i]) = s
    BY DEF QueuesSound
  <2>1. CASE s = key /\ i = n
    BY <1>1, <1>6, <2>1 DEF Ready
  <2>2. CASE s = key /\ i \in DOMAIN q
    BY <1>1, <1>6, <2>2 DEF Ready, Shared, QueuesSound, q
  <2>3. CASE s # key
    <3>1. F.locks.queue[s] = E.locks.queue[s]
      BY <1>6, <2>3
    <3> QED BY <3>1 DEF Ready, Shared, QueuesSound
  <2> QED BY <1>6, <2>1, <2>2, <2>3
<1>13. RunsHold(F) /\ HoldersRun(F, None)
  BY <1>3 DEF RunsHold, HoldersRun, Ready, Shared
<1>14. TimeoutsSound(F, None)
  BY <1>9 DEF TimeoutsSound, Ready
<1>15. Scheduled(F, None)
  BY <1>8, <1>9 DEF Scheduled, Ready
<1>16. Recorded(F, None)
  BY <1>3, <1>9 DEF Recorded, Ready
<1> QED BY <1>10, <1>11, <1>12, <1>13, <1>14, <1>15, <1>16 DEF Flow, Shared

\* The two ways of taking the lock at once.
LEMMA TakesFree ==
    ASSUME NEW E \in EngineStates, NEW F \in EngineStates, NEW task \in Rec,
           Ready(E, task), E.locks.holder[LockKey(task)] = None,
           F.tasks = E.tasks, F.tracked = E.tracked, F.loose = E.loose, F.catchup = E.catchup,
           F.runs = E.runs, F.timedOut = E.timedOut, F.owed = E.owed,
           F.locks = SetHolder(E.locks, task, LockKey(task))
    PROVE  Taken(E, F, task.id, LockKey(task))
<1>1. task.id \in Tasks /\ (task.timed => task.id \in Timed) /\ None \notin Tasks
  BY TaskFacts DEF Ready, Shared, TasksSound, Known, Rec
<1>2. /\ F.locks.holder = [E.locks.holder EXCEPT ![LockKey(task)] = task.id]
      /\ F.locks.queue = E.locks.queue
      /\ F.locks.index = [E.locks.index EXCEPT ![task.id] = LockKey(task)]
      /\ F.locks.armed = IF task.timed THEN E.locks.armed \cup {LockKey(task)} ELSE E.locks.armed
  BY DEF SetHolder
<1>3. Timed = {} => F.locks.armed = E.locks.armed
  BY <1>1, <1>2
<1>4. F.locks.index[task.id] = LockKey(task)
      /\ \A u \in Tasks \ {task.id} : F.locks.index[u] = E.locks.index[u]
  BY <1>1, <1>2, LockFacts
<1> QED BY <1>1, <1>2, <1>3, <1>4 DEF Taken

LEMMA TakesHeld ==
    ASSUME NEW E \in EngineStates, NEW F \in EngineStates, NEW task \in Rec,
           NEW P \in EngineStates, NEW v \in Tasks,
           Ready(E, task), HoldersRun(E, None),
           v = E.locks.holder[LockKey(task)], P = HandleTimeout(E, v),
           F.tasks = P.tasks, F.tracked = P.tracked, F.loose = P.loose, F.catchup = P.catchup,
           F.runs = P.runs, F.timedOut = P.timedOut, F.owed = P.owed,
           F.locks = SetHolder(ClearHolder(E.locks, LockKey(task)), task, LockKey(task))
    PROVE  Taken(E, F, task.id, LockKey(task))
<1> DEFINE key == LockKey(task)
           t == task.id
<1>1. t \in Tasks /\ (task.timed => t \in Timed) /\ None \notin Tasks /\ key \in Sessions
  BY TaskFacts, LockKeySession DEF Ready, Shared, TasksSound, Known, Rec
<1>2. E.tasks[v] # None
  <2>1. PICK i \in DOMAIN E.runs : E.runs[i].task.id = v
    BY <1>1 DEF HoldersRun
  <2>2. E.runs[i].task = E.tasks[v] /\ E.runs[i].task \in Rec
    BY <2>1, TaskFacts DEF Ready, Shared, RunsSound
  <2> QED BY <2>2, TaskFacts
<1>3. /\ F.runs = AbortTurn(E.runs) /\ F.timedOut = E.timedOut \cup {v}
      /\ F.owed = [E.owed EXCEPT ![v] = Less(E.owed[v])]
      /\ F.tasks = E.tasks /\ F.tracked = E.tracked /\ F.loose = E.loose
      /\ F.catchup = E.catchup
  BY <1>2, HandleTimeoutFields
<1>4. /\ DOMAIN F.runs = DOMAIN E.runs
      /\ \A i \in DOMAIN E.runs : F.runs[i].task = E.runs[i].task /\ F.runs[i].key = E.runs[i].key
  BY <1>3, TaskFacts, AbortTurnKeeps
<1>5. ClearHolder(E.locks, key) =
          [holder |-> [E.locks.holder EXCEPT ![key] = None],
           queue  |-> E.locks.queue,
           index  |-> [E.locks.index EXCEPT ![v] = None],
           armed  |-> E.locks.armed \ {key}]
  BY <1>1 DEF ClearHolder
<1>6. /\ F.locks.holder = [[E.locks.holder EXCEPT ![key] = None] EXCEPT ![key] = t]
      /\ F.locks.queue = E.locks.queue
      /\ F.locks.index = [[E.locks.index EXCEPT ![v] = None] EXCEPT ![t] = key]
      /\ F.locks.armed = IF task.timed THEN (E.locks.armed \ {key}) \cup {key}
                         ELSE E.locks.armed \ {key}
  BY <1>5 DEF SetHolder
<1>7. F.locks.holder = [E.locks.holder EXCEPT ![key] = t]
  BY <1>6, LockFacts
<1>8. Timed = {} /\ E.locks.armed = {} => F.locks.armed = {}
  BY <1>1, <1>6
<1>9. F.locks.index[t] = key
      /\ \A u \in Tasks \ {t} : F.locks.index[u] = IF u = v THEN None ELSE E.locks.index[u]
  BY <1>1, <1>6, LockFacts
<1>10. \A u \in Tasks : F.owed[u] = IF u = v THEN Less(E.owed[u]) ELSE E.owed[u]
  BY <1>3, TaskFacts
<1>11. F.timedOut = E.timedOut \cup ({v} \ {None})
  BY <1>1, <1>3
<1> QED BY <1>3, <1>4, <1>6, <1>7, <1>8, <1>9, <1>10, <1>11 DEF Taken

\* fireTask for a task that holds its lock already, or that holds none.
LEMMA FireFlow ==
    ASSUME NEW E \in EngineStates, NEW obj \in Rec, NEW manual \in BOOLEAN,
           ~disposed, E.tasks[obj.id] # None, Idle(E, obj.id), Shared(E),
           HoldersRun(E, obj.id), TimeoutsSound(E, None), Scheduled(E, obj.id), Recorded(E, None),
           \/ HoldersRun(E, None)
           \/ /\ Supported(E.tasks[obj.id])
              /\ E.locks.index[obj.id] = LockKey(E.tasks[obj.id])
    PROVE  Flow(FireTask(E, obj, manual))
<1> DEFINE t       == obj.id
           task    == E.tasks[t]
           key     == LockKey(task)
           kind    == AcquireKind(E.locks, task, key, task.policy)
           evicted == Evicted(E.locks, task, key, task.policy)
           P       == IF evicted = None THEN E ELSE HandleTimeout(E, evicted)
           L       == Acquire(E.locks, task, key, task.policy)
           Q       == [P EXCEPT !.locks = L]
<1>1. t \in Tasks /\ task \in Rec /\ task.id = t /\ task.policy \in TaskPolicies /\ None \notin Tasks
  BY TaskFacts DEF Rec, Shared, TasksSound, Known
<1>2. CASE ~Supported(task)
  <2>1. FireTask(E, obj, manual) = E
    BY <1>2 DEF FireTask
  <2>2. HoldersRun(E, None)
    BY <1>2
  <2>3. Scheduled(E, None)
    BY <1>2 DEF Scheduled
  <2> QED BY <2>1, <2>2, <2>3 DEF Flow
<1>3. CASE Supported(task)
  <2>1. FireTask(E, obj, manual) =
          CASE kind = "skipped"  -> [E EXCEPT !.tasks[t] = task]
            [] kind = "queued"   -> Q
            [] kind = "acquired" -> StartRun(Q, task, key, manual)
    BY <1>3 DEF FireTask
  <2>2. key \in Sessions /\ task.policy \in Policies /\ E.locks \in Managers
    BY <1>1, <1>3, LockKeySession DEF Rec, EngineStates
  <2>3. Ready(E, task)
    BY <1>1, <1>3 DEF Ready
  <2> HIDE DEF task
  <2>4. evicted # None => evicted \in Tasks
    BY <2>2, LockFacts DEF Evicted
  <2>5. P \in EngineStates
    BY <2>4, HandleTimeoutState
  <2>6. L \in Managers
    <3>1. Coherent(L, Rec)
      BY <1>1, <2>2, RecIsTaskSet, AcquireCoherent DEF Managers
    <3> HIDE DEF L
    <3> QED BY <3>1 DEF Managers, Coherent, Base
  <2>7. /\ Q \in EngineStates /\ Q.locks = L
        /\ Q.tasks = P.tasks /\ Q.tracked = P.tracked /\ Q.loose = P.loose
        /\ Q.catchup = P.catchup /\ Q.runs = P.runs /\ Q.timedOut = P.timedOut /\ Q.owed = P.owed
    <3> HIDE DEF P, L
    <3> QED BY <2>5, <2>6, SetLocks
  <2>8. CASE E.locks.index[t] = key
    <3>1. kind = "acquired" /\ evicted = None /\ L = E.locks
      BY <1>1, <2>8 DEF AcquireKind, Evicted, Acquire
    <3>2. Q = E
      <4>1. P = E
        BY <3>1
      <4> HIDE DEF P, L
      <4> QED BY <3>1, <4>1 DEF EngineStates
    <3> HIDE DEF Q, kind
    <3>3. FireTask(E, obj, manual) = StartRun(E, task, key, manual)
      BY <2>1, <3>1, <3>2
    <3> QED BY <1>1, <2>3, <2>8, <3>3, StartFlow DEF Ready
  <2>9. CASE E.locks.index[t] # key
    <3>1. HoldersRun(E, None)
      BY <2>9 DEF task
    <3>2. CASE E.locks.holder[key] # None /\ task.policy = "skip"
      <4>1. kind = "skipped"
        BY <1>1, <2>9, <3>2 DEF AcquireKind
      <4>2. [E EXCEPT !.tasks[t] = task] = E
        BY <1>1 DEF EngineStates, task
      <4> HIDE DEF Q, kind
      <4>3. FireTask(E, obj, manual) = E
        BY <2>1, <4>1, <4>2
      <4>4. Scheduled(E, None)
        BY <1>1, <3>2 DEF Scheduled
      <4> QED BY <3>1, <4>3, <4>4 DEF Flow
    <3>3. CASE E.locks.holder[key] # None /\ task.policy = "queue"
      <4>1. kind = "queued" /\ evicted = None /\ L = Enqueue(E.locks, task, key)
        BY <1>1, <2>9, <3>3 DEF AcquireKind, Evicted, Acquire
      <4>2. P = E
        BY <4>1
      <4> HIDE DEF Q, kind, P, L
      <4>3. FireTask(E, obj, manual) = Q
        BY <2>1, <4>1
      <4> QED BY <1>1, <2>3, <2>7, <3>1, <4>1, <4>2, <4>3, QueueFlow
    <3>4. CASE E.locks.holder[key] = None \/ task.policy = "preempt"
      <4>1. kind = "acquired"
        BY <3>4 DEF AcquireKind
      <4>2. Taken(E, Q, t, key)
        <5>1. CASE E.locks.holder[key] = None
          <6>1. evicted = None /\ L = SetHolder(E.locks, task, key)
            BY <1>1, <2>9, <5>1 DEF Evicted, Acquire
          <6>2. P = E
            BY <6>1
          <6> HIDE DEF Q, P, L
          <6> QED BY <1>1, <2>3, <2>7, <5>1, <6>1, <6>2, TakesFree
        <5>2. CASE E.locks.holder[key] # None
          <6>1. /\ evicted = E.locks.holder[key]
                /\ L = SetHolder(ClearHolder(E.locks, key), task, key)
            BY <1>1, <2>9, <3>4, <5>2 DEF Evicted, Acquire
          <6>2. P = HandleTimeout(E, evicted) /\ evicted \in Tasks
            BY <2>4, <5>2, <6>1
          <6> HIDE DEF Q, P, L, evicted
          <6> QED BY <1>1, <2>3, <2>5, <2>7, <3>1, <6>1, <6>2, TakesHeld
        <5> QED BY <5>1, <5>2
      <4> HIDE DEF Q, kind
      <4>3. FireTask(E, obj, manual) = StartRun(Q, task, key, manual)
        BY <2>1, <4>1
      <4>4. Ready(Q, task) /\ Q.locks.index[task.id] = key
        BY <1>1, <2>3, <2>7, <3>1, <4>2, TakenReady
      <4> QED BY <1>1, <2>7, <4>3, <4>4, StartFlow DEF Ready
    <3> QED BY <2>2, <3>2, <3>3, <3>4 DEF Policies
  <2> QED BY <2>8, <2>9
<1> QED BY <1>2, <1>3

-----------------------------------------------------------------------------
(* The settlement of a dispatch.                                           *)

\* The run of task t has ended; its lock is still held.
Ended(E, t) ==
    /\ t \in Tasks /\ ~Running(E, t) /\ ~Waiting(E, t) /\ Shared(E) /\ HoldersRun(E, t)

\* Its record has not been made.
Unrecorded(E, run) ==
    LET t == run.task.id
    IN  /\ Ended(E, t) /\ E.tasks[t] = run.task /\ E.tracked[t] = <<>>
        /\ TimeoutsSound(E, t) /\ Scheduled(E, t) /\ Recorded(E, t)
        /\ Timed = {} => E.owed[t] = IF t \in E.timedOut THEN 0 ELSE 1

LEMMA TailFlow ==
    ASSUME NEW E \in EngineStates, NEW F \in EngineStates, Flow(E), E.runs # <<>>,
           F.runs = Tail(E.runs), F.tasks = E.tasks, F.tracked = E.tracked, F.loose = E.loose,
           F.catchup = E.catchup, F.timedOut = E.timedOut, F.owed = E.owed, F.locks = E.locks
    PROVE  Unrecorded(F, E.runs[1])
<1> DEFINE run == E.runs[1]
           t == run.task.id
<1>1. /\ Len(E.runs) \in Nat \ {0} /\ 1 \in DOMAIN E.runs /\ DOMAIN E.runs = 1 .. Len(E.runs)
  BY TaskFacts, EmptySeq, LenProperties
<1>2. /\ Len(Tail(E.runs)) = Len(E.runs) - 1 /\ Tail(E.runs) \in Seq(RunRec)
      /\ \A i \in 1 .. Len(Tail(E.runs)) : Tail(E.runs)[i] = E.runs[i + 1]
  BY TaskFacts, HeadTailProperties
<1>3. /\ DOMAIN F.runs = 1 .. Len(E.runs) - 1
      /\ \A i \in DOMAIN F.runs : F.runs[i] = E.runs[i + 1] /\ i + 1 \in DOMAIN E.runs
  BY <1>1, <1>2, LenProperties
<1>4. t \in Tasks /\ run.task \in Rec
  BY <1>1, TaskFacts
<1>5. /\ E.tasks[t] = run.task /\ run.key = LockKey(run.task) /\ ~Waiting(E, t)
      /\ \A j \in DOMAIN E.runs : E.runs[j].task.id = t => j = 1
  BY <1>1 DEF Flow, Shared, RunsSound
<1>6. \A i \in DOMAIN F.runs : F.runs[i].task.id # t
  BY <1>1, <1>3, <1>5
<1>7. \A i \in DOMAIN E.runs : i = 1 \/ (i - 1 \in DOMAIN F.runs /\ F.runs[i - 1] = E.runs[i])
  BY <1>1, <1>3
<1> HIDE DEF run
<1>8. \A u : Running(F, u) <=> Running(E, u) /\ u # t
  <2> TAKE u
  <2>1. Running(F, u) => Running(E, u) /\ u # t
    BY <1>3, <1>6 DEF Running
  <2>2. Running(E, u) /\ u # t => Running(F, u)
    BY <1>7 DEF Running, run
  <2> QED BY <2>1, <2>2
<1>9. \A u : Waiting(F, u) <=> Waiting(E, u)
  BY DEF Waiting
<1>10. Running(E, t) /\ E.tracked[t] = <<>>
  BY <1>1, <1>4 DEF Running, Flow, Shared, TimersSound, run
<1>11. TimersSound(F) /\ TasksSound(F) /\ QueuesSound(F)
  BY <1>8, <1>9 DEF TimersSound, TasksSound, Known, QueuesSound, Flow, Shared
<1>12. RunsSound(F)
  <2> SUFFICES ASSUME NEW i \in DOMAIN F.runs
               PROVE  /\ F.runs[i].task = F.tasks[F.runs[i].task.id]
                      /\ F.runs[i].key = LockKey(F.runs[i].task)
                      /\ ~Waiting(F, F.runs[i].task.id)
                      /\ \A j \in DOMAIN F.runs : F.runs[j].task.id = F.runs[i].task.id => j = i
    BY DEF RunsSound
  <2>1. i + 1 \in DOMAIN E.runs /\ F.runs[i] = E.runs[i + 1]
    BY <1>3
  <2>2. \A j \in DOMAIN F.runs : F.runs[j].task.id = F.runs[i].task.id => j + 1 = i + 1
    BY <1>3, <2>1 DEF Flow, Shared, RunsSound
  <2>3. \A j \in DOMAIN F.runs : j + 1 = i + 1 => j = i
    BY <1>1, <1>3
  <2> QED BY <1>9, <2>1, <2>2, <2>3 DEF Flow, Shared, RunsSound
<1>13. RunsHold(F)
  BY <1>3 DEF RunsHold, Flow, Shared
<1>14. HoldersRun(F, t)
  <2> SUFFICES ASSUME NEW s \in Sessions, E.locks.holder[s] # None, E.locks.holder[s] # t
               PROVE  \E i \in DOMAIN F.runs : F.runs[i].task.id = E.locks.holder[s] /\ F.runs[i].key = s
    BY DEF HoldersRun, Flow
  <2>1. PICK i \in DOMAIN E.runs : E.runs[i].task.id = E.locks.holder[s] /\ E.runs[i].key = s
    BY DEF HoldersRun, Flow
  <2> QED BY <1>7, <2>1 DEF run
<1>15. TimeoutsSound(F, t)
  BY <1>8, TaskFacts DEF TimeoutsSound, Flow
<1>16. Scheduled(F, t)
  BY <1>8, <1>9, TaskFacts DEF Scheduled, Flow
<1>17. Recorded(F, t)
  BY <1>8, TaskFacts DEF Recorded, Flow
<1>18. Timed = {} => F.owed[t] = IF t \in F.timedOut THEN 0 ELSE 1
  BY <1>4, <1>10, TaskFacts DEF Recorded, Flow
<1> QED BY <1>4, <1>5, <1>8, <1>9, <1>10, <1>11, <1>12, <1>13, <1>14, <1>15, <1>16, <1>17, <1>18
        DEF Unrecorded, Ended, Shared, run

LEMMA PendingKey ==
    ASSUME NEW task \in Rec, Supported(task), NEW t \in Tasks, LockKey(task) = Pending(t)
    PROVE  task.id = t
<1>1. task.target \in Rooms \/ task.target = NewTarget
  BY DEF Rec, Supported
<1>2. Pending(t) \notin Rooms
  BY EngineAssumption
<1>3. NewTarget \notin Rooms
  BY EngineAssumption
<1>4. LockKey(task) = Pending(task.id)
  BY <1>1, <1>2, <1>3 DEF LockKey
<1> QED BY <1>4 DEF Pending

\* The lock of a task without a session moves to the session it was given, if
\* that is free.  Nobody else knows the placeholder, so no queue moves.
LEMMA MigrateFlow ==
    ASSUME NEW E \in EngineStates, NEW run \in RunRec, NEW landed \in Landings(run.task),
           ~MayContinue, Unrecorded(E, run), run.key = LockKey(run.task)
    PROVE  Unrecorded(Migrate(E, run, landed), run)
<1> DEFINE t == run.task.id
           key == run.key
           F == Migrate(E, run, landed)
<1>1. CASE landed = None \/ (run.task.target # NewTarget /\ run.task.target = landed)
  BY <1>1 DEF Migrate
<1>2. CASE ~(landed = None \/ (run.task.target # NewTarget /\ run.task.target = landed))
  <2>1. run.task.target = NewTarget /\ landed \in Rooms
    BY <1>2 DEF Landings
  <2>2. t \in Tasks /\ key = Pending(t) /\ key \in Sessions /\ landed \in Sessions
        /\ None \notin Tasks
    BY <2>1, EngineAssumption, LocksAssumption DEF LockKey, RunRec, Rec
  <2>3. F = [E EXCEPT !.locks = Reassign(E.locks, key, landed)]
    BY <1>2 DEF Migrate
  <2>4. CASE key = landed \/ E.locks.holder[key] = None \/ E.locks.holder[landed] # None
    <3>1. Reassign(E.locks, key, landed) = E.locks
      BY <2>4 DEF Reassign
    <3>2. F = E
      BY <2>3, <3>1 DEF EngineStates
    <3> QED BY <3>2
  <2>5. CASE key # landed /\ E.locks.holder[key] # None /\ E.locks.holder[landed] = None
    <3>1. E.locks.holder[key] = t
      <4>1. ASSUME NEW i \in DOMAIN E.runs, E.runs[i].key = key PROVE E.runs[i].task.id = t
        BY <2>2, <4>1, TaskFacts, PendingKey DEF Unrecorded, Ended, Shared, RunsSound
      <4> QED BY <2>2, <2>5, <4>1 DEF Unrecorded, Ended, HoldersRun
    <3>2. E.locks.queue[key] = <<>>
      <4>1. ASSUME NEW i \in DOMAIN E.locks.queue[key] PROVE FALSE
        <5>1. /\ E.locks.queue[key][i] \in Rec /\ Supported(E.locks.queue[key][i])
              /\ LockKey(E.locks.queue[key][i]) = Pending(t)
          BY <2>2, LockFacts DEF Unrecorded, Ended, Shared, QueuesSound
        <5>2. E.locks.queue[key][i].id = t
          BY <2>2, <5>1, PendingKey
        <5> QED BY <2>2, <5>2 DEF Unrecorded, Ended, Waiting, IsQueued
      <4>2. E.locks.queue[key] \in Seq(Rec) /\ DOMAIN E.locks.queue[key] = 1 .. Len(E.locks.queue[key])
        BY <2>2, LockFacts
      <4>3. Len(E.locks.queue[key]) \in Nat /\ 1 \notin DOMAIN E.locks.queue[key]
        BY <2>2, <4>1, LockFacts
      <4>4. Len(E.locks.queue[key]) = 0
        BY <4>2, <4>3
      <4> QED BY <4>2, <4>4, EmptySeq
    <3> DEFINE L == Reassign(E.locks, key, landed)
    <3>3. /\ L.holder = [[E.locks.holder EXCEPT ![key] = None] EXCEPT ![landed] = t]
          /\ L.queue = E.locks.queue /\ L.index = [E.locks.index EXCEPT ![t] = landed]
          /\ E.locks.armed = {} => L.armed = {}
      BY <2>5, <3>1, <3>2 DEF Reassign
    <3>4. L.index[t] = landed /\ \A u \in Tasks \ {t} : L.index[u] = E.locks.index[u]
      BY <2>2, <3>3, LockFacts
    <3>5. /\ L.holder[landed] = t /\ L.holder[key] = None
          /\ \A s \in Sessions \ {key, landed} : L.holder[s] = E.locks.holder[s]
      BY <2>2, <2>5, <3>3, LockFacts
    <3> HIDE DEF L, F
    <3>6. /\ F.locks = L /\ F.tasks = E.tasks /\ F.tracked = E.tracked /\ F.loose = E.loose
          /\ F.catchup = E.catchup /\ F.runs = E.runs /\ F.timedOut = E.timedOut /\ F.owed = E.owed
      BY <2>3 DEF L, EngineStates
    <3>7. \A u : (Running(F, u) <=> Running(E, u)) /\ (Waiting(F, u) <=> Waiting(E, u))
      <4>1. \A u : Running(F, u) <=> Running(E, u)
        BY <3>6 DEF Running
      <4>2. F.locks.queue = E.locks.queue
        BY <3>3, <3>6
      <4>3. \A u : Waiting(F, u) <=> Waiting(E, u)
        BY <4>2 DEF Waiting, IsQueued
      <4> QED BY <4>1, <4>3
    <3>8. TimersSound(F) /\ TasksSound(F) /\ RunsSound(F) /\ QueuesSound(F)
      BY <3>3, <3>6, <3>7 DEF TimersSound, TasksSound, Known, RunsSound, QueuesSound,
                              Unrecorded, Ended, Shared
    <3>9. RunsHold(F)
      <4>1. \A i \in DOMAIN E.runs : E.runs[i].task.id \in Tasks \ {t}
        BY TaskFacts DEF Unrecorded, Ended, Running
      <4> QED BY <3>4, <3>6, <4>1 DEF RunsHold, Unrecorded, Ended, Shared
    <3>10. HoldersRun(F, t)
      <4> SUFFICES ASSUME NEW s \in Sessions, L.holder[s] # None
                   PROVE  /\ L.index[L.holder[s]] = s
                          /\ L.holder[s] # t =>
                                \E i \in DOMAIN E.runs : E.runs[i].task.id = L.holder[s] /\ E.runs[i].key = s
        BY <3>6 DEF HoldersRun
      <4>1. CASE s = landed
        BY <3>4, <3>5, <4>1
      <4>2. CASE s # landed
        <5>1. s # key /\ L.holder[s] = E.locks.holder[s] /\ L.holder[s] \in Tasks
          BY <3>5, <4>2, LockFacts
        <5>2. L.holder[s] # t
          BY <2>2, <2>5, <3>1, <5>1 DEF Unrecorded, Ended, HoldersRun
        <5> QED BY <3>4, <5>1, <5>2 DEF Unrecorded, Ended, HoldersRun
      <4> QED BY <4>1, <4>2
    <3>11. TimeoutsSound(F, t) /\ Scheduled(F, t)
      BY <3>6, <3>7 DEF TimeoutsSound, Scheduled, Unrecorded
    <3>12. Recorded(F, t)
      <4> SUFFICES ASSUME Timed = {}
                   PROVE  /\ L.armed = {} /\ \A u \in E.timedOut : L.index[u] = None
                          /\ \A u \in Tasks : u # t =>
                                E.owed[u] = IF Running(E, u) /\ u \notin E.timedOut THEN 1 ELSE 0
        BY <3>6, <3>7 DEF Recorded
      <4>1. t \notin E.timedOut
        <5>1. E.locks.index[t] = key /\ key # None
          BY <2>2, <2>5, <3>1, TaskFacts DEF Unrecorded, Ended, HoldersRun
        <5> QED BY <5>1 DEF Unrecorded, Recorded
      <4> QED BY <3>3, <3>4, <4>1, TaskFacts DEF Recorded, Unrecorded
    <3>13. Ended(F, t)
      BY <3>7, <3>8, <3>9, <3>10 DEF Unrecorded, Ended, Shared
    <3>14. /\ F.tasks[t] = run.task /\ F.tracked[t] = <<>>
           /\ Timed = {} => F.owed[t] = IF t \in F.timedOut THEN 0 ELSE 1
      BY <3>6 DEF Unrecorded
    <3>15. Unrecorded(F, run)
      BY <3>11, <3>12, <3>13, <3>14 DEF Unrecorded
    <3> QED BY <3>15 DEF F
  <2> QED BY <2>4, <2>5
<1> QED BY <1>1, <1>2

\* What is written back is the task as it is stored.
LEMMA WritesSame ==
    ASSUME NEW run \in RunRec, NEW landed \in Landings(run.task), ~MayContinue
    PROVE  AfterDispatch(run, landed) = run.task
<1> DEFINE task == run.task
<1>1. task \in Rec
  BY DEF RunRec
<1>2. CASE landed = None \/ task.target = NewTarget
  BY <1>2 DEF AfterDispatch
<1>3. CASE ~(landed = None \/ task.target = NewTarget)
  <2>1. landed = task.target
    BY <1>3 DEF Landings
  <2>2. AfterDispatch(run, landed) = [task EXCEPT !.target = landed]
    BY <1>3 DEF AfterDispatch
  <2> HIDE DEF task
  <2>3. [task EXCEPT !.target = landed] = task
    BY <1>1, <2>1 DEF Rec
  <2> QED BY <2>2, <2>3 DEF task
<1> QED BY <1>2, <1>3

\* The run is recorded, or has been by its timeout.
RecordedRun(E, t) ==
    Ended(E, t) /\ E.tasks[t] # None /\ TimeoutsSound(E, None) /\ Recorded(E, None)

LEMMA RecordFlow ==
    ASSUME NEW E \in EngineStates, NEW run \in RunRec, NEW landed \in Landings(run.task),
           ~MayContinue, Unrecorded(E, run)
    PROVE  LET F == RecordRun(E, run, landed)
           IN  /\ RecordedRun(F, run.task.id) /\ F.tasks[run.task.id] = run.task
               /\ F.tracked[run.task.id] = <<>> /\ Scheduled(F, run.task.id)
<1> DEFINE t == run.task.id
           F == RecordRun(E, run, landed)
<1>1. t \in Tasks /\ run.task \in Rec /\ E.tasks[t] = run.task /\ t # None
  BY TaskFacts DEF Unrecorded, RunRec, Rec
<1>2. /\ F.tasks = E.tasks /\ F.tracked = E.tracked /\ F.loose = E.loose
      /\ F.catchup = E.catchup /\ F.runs = E.runs /\ F.locks = E.locks
      /\ F.timedOut = E.timedOut \ {t}
      /\ F.owed = IF t \in E.timedOut THEN E.owed ELSE [E.owed EXCEPT ![t] = Less(E.owed[t])]
  <2>1. CASE t \in E.timedOut
    BY <2>1 DEF RecordRun, EngineStates
  <2>2. CASE t \notin E.timedOut
    <3>1. F = [E EXCEPT !.tasks[t] = run.task, !.owed[t] = Less(E.owed[t])]
      BY <2>2, WritesSame DEF RecordRun
    <3>2. [E.tasks EXCEPT ![t] = run.task] = E.tasks
      BY <1>1, TaskFacts
    <3>3. F.tasks = [E.tasks EXCEPT ![t] = run.task]
          /\ F.owed = [E.owed EXCEPT ![t] = Less(E.owed[t])]
          /\ F.tracked = E.tracked /\ F.loose = E.loose /\ F.timedOut = E.timedOut
          /\ F.catchup = E.catchup /\ F.runs = E.runs /\ F.locks = E.locks
      BY <3>1 DEF EngineStates
    <3> QED BY <2>2, <3>2, <3>3
  <2> QED BY <2>1, <2>2
<1> HIDE DEF F
<1>3. \A u : Running(F, u) <=> Running(E, u)
  BY <1>2 DEF Running
<1>4. \A u : Waiting(F, u) <=> Waiting(E, u)
  BY <1>2 DEF Waiting
<1>5. ~Running(E, t)
  BY DEF Unrecorded, Ended
<1>6. TimersSound(F) /\ TasksSound(F) /\ RunsSound(F) /\ QueuesSound(F)
  BY <1>2, <1>3, <1>4 DEF TimersSound, TasksSound, Known, RunsSound, QueuesSound,
                          Unrecorded, Ended, Shared
<1>7. RunsHold(F)
  <2>1. \A i \in DOMAIN E.runs : E.runs[i].task.id # t
    BY <1>5 DEF Running
  <2> QED BY <1>2, <2>1 DEF RunsHold, Unrecorded, Ended, Shared
<1>8. HoldersRun(F, t)
  BY <1>2 DEF HoldersRun, Unrecorded, Ended
<1>9. TimeoutsSound(F, None)
  BY <1>2, <1>3 DEF TimeoutsSound, Unrecorded
<1>10. Scheduled(F, t)
  BY <1>2, <1>3, <1>4 DEF Scheduled, Unrecorded
<1>11. Recorded(F, None)
  <2> SUFFICES ASSUME Timed = {}
               PROVE  /\ E.locks.armed = {} /\ \A u \in E.timedOut : E.locks.index[u] = None
                      /\ \A u \in Tasks :
                            F.owed[u] = IF Running(E, u) /\ u \notin F.timedOut THEN 1 ELSE 0
    BY <1>2, <1>3 DEF Recorded
  <2>1. E.owed[t] = IF t \in E.timedOut THEN 0 ELSE 1
    BY DEF Unrecorded
  <2>2. F.owed[t] = 0
    <3>1. CASE t \in E.timedOut
      BY <1>2, <2>1, <3>1
    <3>2. CASE t \notin E.timedOut
      BY <1>1, <1>2, <2>1, <3>2, TaskFacts DEF Less
    <3> QED BY <3>1, <3>2
  <2>3. ASSUME NEW u \in Tasks, u # t
        PROVE  F.owed[u] = IF Running(E, u) /\ u \notin F.timedOut THEN 1 ELSE 0
    <3>1. F.owed[u] = E.owed[u] /\ (u \in F.timedOut <=> u \in E.timedOut)
      BY <1>2, <2>3, TaskFacts
    <3> QED BY <2>3, <3>1 DEF Recorded, Unrecorded
  <2> QED BY <1>5, <2>2, <2>3 DEF Recorded, Unrecorded
<1>12. Ended(F, t)
  BY <1>1, <1>3, <1>4, <1>5, <1>6, <1>7, <1>8 DEF Unrecorded, Ended, Shared
<1>13. F.tasks[t] = run.task /\ F.tracked[t] = <<>> /\ F.tasks[t] # None
  BY <1>1, <1>2, TaskFacts DEF Unrecorded
<1> QED BY <1>9, <1>10, <1>11, <1>12, <1>13 DEF RecordedRun, F

\* The next fire is set, unless there is no slot to come.
LEMMA RescheduleFlow ==
    ASSUME NEW E \in EngineStates, NEW run \in RunRec, ~disposed,
           RecordedRun(E, run.task.id), E.tasks[run.task.id] = run.task,
           E.tracked[run.task.id] = <<>>, Scheduled(E, run.task.id)
    PROVE  RecordedRun(Reschedule(E, run), run.task.id) /\ Scheduled(Reschedule(E, run), None)
<1> DEFINE t == run.task.id
           task == run.task
           F == Reschedule(E, run)
<1>1. t \in Tasks /\ task \in Rec /\ Supported(task) /\ task # None
  BY TaskFacts DEF RunRec, Rec
<1>2. CASE /\ task.enabled /\ window[t] # "over" /\ HasNextRun(task)
  <2>1. F = ScheduleOne(E, task)
    BY <1>1, <1>2 DEF Reschedule
  <2>2. /\ F.tracked = [E.tracked EXCEPT ![t] = <<task>>]
        /\ F.loose = [E.loose EXCEPT ![t] = E.loose[t] \o E.tracked[t]]
        /\ F.tasks = E.tasks /\ F.runs = E.runs /\ F.timedOut = E.timedOut
        /\ F.owed = E.owed /\ F.catchup = E.catchup /\ F.locks = E.locks
    <3>1. t = task.id
      OBVIOUS
    <3> HIDE DEF F, task, t
    <3> QED BY <1>1, <1>2, <2>1, <3>1, ScheduleOneFields
  <2> HIDE DEF F
  <2>3. E.loose[t] = <<>> /\ E.tracked[t] = <<>>
    BY <1>1 DEF RecordedRun, Ended, Shared, TimersSound
  <2>4. F.loose[t] = <<>> /\ F.tracked[t] = <<task>>
        /\ \A u \in Tasks \ {t} : F.loose[u] = E.loose[u] /\ F.tracked[u] = E.tracked[u]
    BY <1>1, <2>2, <2>3, TaskFacts
  <2>5. \A u : Running(F, u) <=> Running(E, u)
    BY <2>2 DEF Running
  <2>6. \A u : Waiting(F, u) <=> Waiting(E, u)
    BY <2>2 DEF Waiting
  <2>7. TimersSound(F)
    <3>1. ASSUME NEW u \in Tasks
          PROVE  /\ F.loose[u] = <<>> /\ F.catchup[u] = 0 /\ Len(F.tracked[u]) <= 1
                 /\ F.tracked[u] # <<>> => /\ F.tasks[u] # None /\ F.tracked[u][1].id = u
                                           /\ ~Running(F, u) /\ ~Waiting(F, u)
      <4>1. CASE u = t
        <5>1. Len(F.tracked[u]) <= 1 /\ F.tracked[u][1] = task
          <6>1. Len(<<task>>) = 1 /\ <<task>>[1] = task
            OBVIOUS
          <6>2. F.tracked[u] = <<task>>
            BY <2>4, <4>1
          <6> HIDE DEF task
          <6> QED BY <6>1, <6>2
        <5>2. ~Running(F, t) /\ ~Waiting(F, t) /\ F.tasks[t] # None /\ F.catchup[t] = 0
          BY <1>1, <2>2, <2>5, <2>6 DEF RecordedRun, Ended, Shared, TimersSound
        <5> QED BY <2>4, <4>1, <5>1, <5>2
      <4>2. CASE u # t
        BY <2>2, <2>4, <2>5, <2>6, <3>1, <4>2 DEF RecordedRun, Ended, Shared, TimersSound
      <4> QED BY <4>1, <4>2
    <3> QED BY <3>1 DEF TimersSound
  <2>8. TasksSound(F) /\ RunsSound(F) /\ QueuesSound(F) /\ RunsHold(F)
    <3>1. TasksSound(F)
      BY <2>2 DEF TasksSound, Known, RecordedRun, Ended, Shared
    <3>2. RunsSound(F)
      BY <2>2, <2>6 DEF RunsSound, RecordedRun, Ended, Shared
    <3>3. QueuesSound(F)
      BY <2>2 DEF QueuesSound, RecordedRun, Ended, Shared
    <3>4. RunsHold(F)
      BY <2>2 DEF RunsHold, RecordedRun, Ended, Shared
    <3> QED BY <3>1, <3>2, <3>3, <3>4
  <2>9. HoldersRun(F, t) /\ TimeoutsSound(F, None)
    BY <2>2, <2>5 DEF HoldersRun, TimeoutsSound, RecordedRun, Ended
  <2>10. Recorded(F, None)
    BY <2>2, <2>5 DEF Recorded, RecordedRun
  <2>11. Scheduled(F, None)
    <3>1. F.tracked[t] # <<>>
      BY <2>4
    <3> QED BY <2>2, <2>4, <2>5, <2>6, <3>1 DEF Scheduled
  <2>12. RecordedRun(F, t)
    BY <1>1, <2>2, <2>5, <2>6, <2>7, <2>8, <2>9, <2>10 DEF RecordedRun, Ended, Shared
  <2> QED BY <2>11, <2>12 DEF F
<1>3. CASE ~(task.enabled /\ window[t] = "over" /\ ~run.manual) /\ ~HasNextRun(task)
  <2>1. F = E
    BY <1>1, <1>3 DEF Reschedule, ScheduleOne
  <2>2. Scheduled(E, None)
    BY <1>3 DEF Scheduled
  <2> QED BY <2>1, <2>2
<1>4. CASE task.enabled /\ window[t] = "over" /\ ~run.manual
  <2> DEFINE off == [task EXCEPT !.enabled = FALSE]
  <2>1. F = [E EXCEPT !.tasks = [E.tasks EXCEPT ![t] = off]]
    BY <1>1, <1>4 DEF Reschedule
  <2>2. off \in Rec /\ off.id = t /\ off.policy = task.policy /\ off.timed = task.timed /\ ~off.enabled
    BY <1>1 DEF Rec
  <2> HIDE DEF off, F
  <2>3. /\ F.tasks = [E.tasks EXCEPT ![t] = off]
        /\ F.tracked = E.tracked /\ F.loose = E.loose /\ F.runs = E.runs /\ F.timedOut = E.timedOut
        /\ F.owed = E.owed /\ F.catchup = E.catchup /\ F.locks = E.locks
    BY <2>1 DEF EngineStates
  <2>4. F.tasks[t] = off /\ off # None /\ \A u \in Tasks \ {t} : F.tasks[u] = E.tasks[u]
    BY <1>1, <2>2, <2>3, TaskFacts
  <2>5. \A u : Running(F, u) <=> Running(E, u)
    BY <2>3 DEF Running
  <2>6. \A u : Waiting(F, u) <=> Waiting(E, u)
    BY <2>3 DEF Waiting
  <2>7. TimersSound(F)
    BY <2>3, <2>4, <2>5, <2>6 DEF TimersSound, RecordedRun, Ended, Shared
  <2>8. TasksSound(F)
    <3>1. task.policy \in TaskPolicies /\ (task.timed => t \in Timed) /\ t \in created
      BY <1>1 DEF RecordedRun, Ended, Shared, TasksSound, Known
    <3>2. ASSUME NEW u \in Tasks, F.tasks[u] # None
          PROVE  /\ F.tasks[u].id = u /\ F.tasks[u].policy \in TaskPolicies
                 /\ F.tasks[u].timed => u \in Timed
                 /\ u \in created
      <4>1. CASE u = t
        BY <2>2, <2>4, <3>1, <4>1
      <4>2. CASE u # t
        BY <2>4, <3>2, <4>2 DEF RecordedRun, Ended, Shared, TasksSound, Known
      <4> QED BY <4>1, <4>2
    <3> QED BY <3>2 DEF TasksSound, Known
  <2>9. RunsSound(F)
    <3>1. \A i \in DOMAIN E.runs : E.runs[i].task.id \in Tasks \ {t}
      BY TaskFacts DEF RecordedRun, Ended, Running
    <3> QED BY <2>3, <2>4, <2>6, <3>1 DEF RunsSound, RecordedRun, Ended, Shared
  <2>10. QueuesSound(F)
    <3> SUFFICES ASSUME NEW s \in Sessions, NEW i \in DOMAIN E.locks.queue[s]
                 PROVE  F.tasks[E.locks.queue[s][i].id] = E.tasks[E.locks.queue[s][i].id]
      BY <2>3 DEF QueuesSound, RecordedRun, Ended, Shared
    <3>1. E.locks.queue[s][i].id # t
      BY DEF RecordedRun, Ended, Waiting, IsQueued
    <3>2. E.locks.queue[s][i].id \in Tasks
      BY LockFacts DEF Rec
    <3> QED BY <2>4, <3>1, <3>2
  <2>11. RunsHold(F) /\ HoldersRun(F, t) /\ TimeoutsSound(F, None)
    BY <2>3, <2>5 DEF RunsHold, HoldersRun, TimeoutsSound, RecordedRun, Ended, Shared
  <2>12. Recorded(F, None)
    BY <2>3, <2>5 DEF Recorded, RecordedRun
  <2>13. Scheduled(F, None)
    <3>1. ~HasNextRun(F.tasks[t])
      BY <2>2, <2>4 DEF HasNextRun
    <3> QED BY <2>3, <2>4, <2>5, <2>6, <3>1 DEF Scheduled
  <2>14. RecordedRun(F, t)
    BY <1>1, <2>4, <2>5, <2>6, <2>7, <2>8, <2>9, <2>10, <2>11, <2>12 DEF RecordedRun, Ended, Shared
  <2> QED BY <2>13, <2>14 DEF F
<1> QED BY <1>2, <1>3, <1>4 DEF HasNextRun

\* A task that keeps no lock: nothing is handed on.
LEMMA EndedFlow ==
    ASSUME NEW E \in EngineStates, NEW t, RecordedRun(E, t), Scheduled(E, None), E.locks.index[t] = None
    PROVE  Flow(E)
<1>1. HoldersRun(E, None)
  BY TaskFacts DEF HoldersRun, RecordedRun, Ended
<1> QED BY <1>1 DEF Flow, RecordedRun, Ended

\* The lock is freed.
LEMMA FreedFlow ==
    ASSUME NEW E \in EngineStates, NEW F \in EngineStates, NEW t, NEW s \in Sessions,
           RecordedRun(E, t), Scheduled(E, None), E.locks.index[t] = s,
           F.tasks = E.tasks, F.tracked = E.tracked, F.loose = E.loose, F.catchup = E.catchup,
           F.runs = E.runs, F.timedOut = E.timedOut, F.owed = E.owed,
           F.locks = ClearHolder(E.locks, s)
    PROVE  Flow(F)
<1>1. t \in Tasks /\ E.locks.holder[s] = t /\ t # None /\ s # None
  BY TaskFacts, LockFacts DEF RecordedRun, Ended
<1>2. /\ F.locks.holder = [E.locks.holder EXCEPT ![s] = None] /\ F.locks.queue = E.locks.queue
      /\ F.locks.index = [E.locks.index EXCEPT ![t] = None]
      /\ F.locks.armed = E.locks.armed \ {s}
  BY <1>1 DEF ClearHolder
<1>3. /\ F.locks.index[t] = None /\ \A u \in Tasks \ {t} : F.locks.index[u] = E.locks.index[u]
      /\ F.locks.holder[s] = None /\ \A r \in Sessions \ {s} : F.locks.holder[r] = E.locks.holder[r]
  BY <1>1, <1>2, LockFacts
<1>4. \A u : Running(F, u) <=> Running(E, u)
  BY DEF Running
<1>5. \A u : Waiting(F, u) <=> Waiting(E, u)
  BY <1>2 DEF Waiting, IsQueued
<1>6. TimersSound(F) /\ TasksSound(F)
  BY <1>4, <1>5 DEF TimersSound, TasksSound, Known, RecordedRun, Ended, Shared
<1>7. RunsSound(F)
  BY <1>5 DEF RunsSound, RecordedRun, Ended, Shared
<1>8. QueuesSound(F)
  BY <1>2 DEF QueuesSound, RecordedRun, Ended, Shared
<1>9. RunsHold(F)
  <2>1. \A i \in DOMAIN E.runs : E.runs[i].task.id \in Tasks \ {t}
    BY TaskFacts DEF RecordedRun, Ended, Running
  <2> QED BY <1>3, <2>1 DEF RunsHold, RecordedRun, Ended, Shared
<1>10. TimeoutsSound(F, None) /\ Scheduled(F, None)
  BY <1>4, <1>5 DEF TimeoutsSound, Scheduled, RecordedRun
<1>11. HoldersRun(F, t)
  <2> SUFFICES ASSUME NEW r \in Sessions, F.locks.holder[r] # None
               PROVE  /\ F.locks.index[F.locks.holder[r]] = r
                      /\ F.locks.holder[r] # t =>
                            \E i \in DOMAIN E.runs : /\ E.runs[i].task.id = F.locks.holder[r]
                                                     /\ E.runs[i].key = r
    BY DEF HoldersRun
  <2>1. r # s /\ F.locks.holder[r] = E.locks.holder[r] /\ E.locks.holder[r] \in Tasks
    BY <1>3, LockFacts
  <2>2. E.locks.holder[r] # t
    BY <2>1 DEF RecordedRun, Ended, HoldersRun
  <2> QED BY <1>3, <2>1, <2>2 DEF RecordedRun, Ended, HoldersRun
<1>12. Recorded(F, None)
  BY <1>2, <1>3, <1>4, TaskFacts DEF Recorded, RecordedRun
<1>13. RecordedRun(F, t)
  BY <1>1, <1>4, <1>5, <1>6, <1>7, <1>8, <1>9, <1>10, <1>11, <1>12
     DEF RecordedRun, Ended, Shared
<1> QED BY <1>3, <1>10, <1>13, EndedFlow

\* The lock is handed to the task that has waited longest, which holds it now
\* and is neither running nor waiting.
LEMMA HandedFlow ==
    ASSUME NEW E \in EngineStates, NEW F \in EngineStates, NEW t, NEW s \in Sessions,
           RecordedRun(E, t), Scheduled(E, None), E.locks.index[t] = s,
           E.locks.queue[s] # <<>>, NEW next, next = Head(E.locks.queue[s]),
           F.tasks = E.tasks, F.tracked = E.tracked, F.loose = E.loose, F.catchup = E.catchup,
           F.runs = E.runs, F.timedOut = E.timedOut, F.owed = E.owed,
           F.locks = SetHolder(Dequeued(ClearHolder(E.locks, s), s), next, s)
    PROVE  /\ next \in Rec /\ Ready(F, next) /\ F.locks.index[next.id] = LockKey(next)
<1> DEFINE q == E.locks.queue[s]
           n == next.id
<1>0. QueuesSound(E) /\ RunsHold(E) /\ HoldersRun(E, t)
  BY DEF RecordedRun, Ended, Shared
<1>1. t \in Tasks /\ E.locks.holder[s] = t /\ t # None /\ s # None
  BY TaskFacts, LockFacts DEF RecordedRun, Ended
<1>2. /\ q \in Seq(Rec) /\ q # <<>> /\ Len(q) \in Nat \ {0} /\ DOMAIN q = 1 .. Len(q)
      /\ 1 \in DOMAIN q /\ next = q[1] /\ Distinct(q)
  <2>1. q \in Seq(Rec) /\ Len(q) \in Nat /\ DOMAIN q = 1 .. Len(q)
    BY LockFacts
  <2>2. Distinct(q)
    BY DEF EngineStates, Managers, Coherent, Base
  <2> QED BY <2>1, <2>2, EmptySeq, HeadTailProperties
<1>3. next \in Rec /\ n \in Tasks /\ n # None /\ E.tasks[n] = next /\ Supported(next) /\ LockKey(next) = s
  <2>1. q[1] = E.tasks[q[1].id] /\ Supported(q[1]) /\ LockKey(q[1]) = s
    BY <1>0, <1>2 DEF QueuesSound
  <2>2. next \in Rec
    BY <1>2, LockFacts
  <2>3. n \in Tasks /\ n # None
    BY <2>2, TaskFacts DEF Rec
  <2> QED BY <1>2, <2>1, <2>2, <2>3
<1>4. Waiting(E, n)
  BY <1>2 DEF Waiting, IsQueued
<1>5. n # t /\ ~Running(E, n) /\ E.tracked[n] = <<>>
  BY <1>3, <1>4 DEF RecordedRun, Ended, Shared, RunsSound, TimersSound, Running
<1>6. ClearHolder(E.locks, s) =
          [holder |-> [E.locks.holder EXCEPT ![s] = None],
           queue  |-> E.locks.queue,
           index  |-> [E.locks.index EXCEPT ![t] = None],
           armed  |-> E.locks.armed \ {s}]
  BY <1>1 DEF ClearHolder
<1>7. /\ F.locks.holder = [[E.locks.holder EXCEPT ![s] = None] EXCEPT ![s] = n]
      /\ F.locks.queue = [E.locks.queue EXCEPT ![s] = Tail(q)]
      /\ F.locks.index = [[E.locks.index EXCEPT ![t] = None] EXCEPT ![n] = s]
      /\ F.locks.armed = IF next.timed THEN (E.locks.armed \ {s}) \cup {s} ELSE E.locks.armed \ {s}
  BY <1>6 DEF SetHolder, Dequeued
<1>8. /\ F.locks.holder[s] = n /\ \A r \in Sessions \ {s} : F.locks.holder[r] = E.locks.holder[r]
      /\ F.locks.index[n] = s /\ F.locks.index[t] = None
      /\ \A u \in Tasks \ {t, n} : F.locks.index[u] = E.locks.index[u]
      /\ F.locks.queue[s] = Tail(q) /\ \A r \in Sessions \ {s} : F.locks.queue[r] = E.locks.queue[r]
  <2>1. E.locks.holder \in [Sessions -> Tasks \cup {None}]
    BY LockFacts
  <2>2. E.locks.index \in [Tasks -> Sessions \cup {None}]
    BY LockFacts
  <2>3. E.locks.queue \in [Sessions -> Seq(Rec)]
    BY LockFacts
  <2> HIDE DEF q, n
  <2>4. /\ F.locks.holder[s] = n
        /\ \A r \in Sessions \ {s} : F.locks.holder[r] = E.locks.holder[r]
    BY <1>7, <2>1
  <2>5. /\ F.locks.index[n] = s /\ F.locks.index[t] = None
        /\ \A u \in Tasks \ {t, n} : F.locks.index[u] = E.locks.index[u]
    BY <1>1, <1>3, <1>5, <1>7, <2>2
  <2>6. /\ F.locks.queue[s] = Tail(q)
        /\ \A r \in Sessions \ {s} : F.locks.queue[r] = E.locks.queue[r]
    BY <1>7, <2>3
  <2> QED BY <2>4, <2>5, <2>6
<1>9. /\ DOMAIN Tail(q) = 1 .. Len(q) - 1
      /\ \A i \in DOMAIN Tail(q) : Tail(q)[i] = q[i + 1] /\ i + 1 \in DOMAIN q /\ i + 1 # 1
  <2>1. Tail(q) \in Seq(Rec) /\ Len(Tail(q)) = Len(q) - 1 /\ \A i \in 1 .. Len(Tail(q)) : Tail(q)[i] = q[i + 1]
    BY <1>2, HeadTailProperties
  <2>2. DOMAIN Tail(q) = 1 .. Len(q) - 1
    BY <2>1, LenProperties
  <2>3. \A i \in 1 .. Len(q) - 1 : i + 1 \in 1 .. Len(q) /\ i + 1 # 1
    BY <1>2
  <2> QED BY <1>2, <2>1, <2>2, <2>3
<1> HIDE DEF q
<1>10. \A u : IsQueued(F.locks, u, s) <=> IsQueued(E.locks, u, s) /\ u # n
  <2> TAKE u
  <2>1. IsQueued(F.locks, u, s) => IsQueued(E.locks, u, s) /\ u # n
    <3> SUFFICES ASSUME NEW i \in DOMAIN Tail(q), Tail(q)[i].id = u
                 PROVE  IsQueued(E.locks, u, s) /\ u # n
      BY <1>8 DEF IsQueued
    <3>1. i + 1 \in DOMAIN q /\ i + 1 # 1 /\ q[i + 1].id = u
      BY <1>9
    <3>2. q[i + 1].id # q[1].id
      BY <1>2, <3>1 DEF Distinct
    <3> QED BY <1>2, <3>1, <3>2 DEF IsQueued, q
  <2>2. IsQueued(E.locks, u, s) /\ u # n => IsQueued(F.locks, u, s)
    <3> SUFFICES ASSUME NEW j \in DOMAIN q, q[j].id = u, u # n
                 PROVE  IsQueued(F.locks, u, s)
      BY DEF IsQueued, q
    <3>1. j # 1
      BY <1>2
    <3>2. j - 1 \in DOMAIN Tail(q) /\ (j - 1) + 1 = j
      BY <1>2, <1>9, <3>1
    <3>3. Tail(q)[j - 1].id = u
      BY <1>9, <3>2
    <3> QED BY <1>8, <3>2, <3>3 DEF IsQueued
  <2> QED BY <2>1, <2>2
<1>11. \A r \in Sessions \ {s} : \A u : IsQueued(F.locks, u, r) <=> IsQueued(E.locks, u, r)
  BY <1>8 DEF IsQueued
<1>12. \A r \in Sessions : IsQueued(E.locks, n, r) => r = s
  <2> SUFFICES ASSUME NEW r \in Sessions, NEW i \in DOMAIN E.locks.queue[r], E.locks.queue[r][i].id = n
               PROVE  r = s
    BY DEF IsQueued
  <2> QED BY <1>3 DEF RecordedRun, Ended, Shared, QueuesSound
<1>13. \A u : Waiting(F, u) <=> Waiting(E, u) /\ u # n
  BY <1>10, <1>11, <1>12 DEF Waiting
<1>14. \A u : Running(F, u) <=> Running(E, u)
  BY DEF Running
<1>15. Idle(F, n)
  BY <1>5, <1>13, <1>14 DEF Idle
<1>16. TimersSound(F) /\ TasksSound(F)
  BY <1>13, <1>14 DEF TimersSound, TasksSound, Known, RecordedRun, Ended, Shared
<1>17. RunsSound(F)
  BY <1>13 DEF RunsSound, RecordedRun, Ended, Shared
<1>18. QueuesSound(F)
  <2> SUFFICES ASSUME NEW r \in Sessions, NEW i \in DOMAIN F.locks.queue[r]
               PROVE  /\ F.locks.queue[r][i] = F.tasks[F.locks.queue[r][i].id]
                      /\ Supported(F.locks.queue[r][i]) /\ LockKey(F.locks.queue[r][i]) = r
    BY DEF QueuesSound
  <2>1. CASE r = s
    <3>1. F.locks.queue[r][i] = q[i + 1] /\ i + 1 \in DOMAIN q
      BY <1>8, <1>9, <2>1
    <3> QED BY <2>1, <3>1 DEF RecordedRun, Ended, Shared, QueuesSound, q
  <2>2. CASE r # s
    <3>1. F.locks.queue[r] = E.locks.queue[r]
      BY <1>8, <2>2
    <3>2. i \in DOMAIN E.locks.queue[r]
      BY <3>1
    <3>3. /\ E.locks.queue[r][i] = E.tasks[E.locks.queue[r][i].id]
          /\ Supported(E.locks.queue[r][i]) /\ LockKey(E.locks.queue[r][i]) = r
      BY <1>0, <3>2 DEF QueuesSound
    <3> QED BY <3>1, <3>3
  <2> QED BY <2>1, <2>2
<1>19. \A i \in DOMAIN E.runs : E.runs[i].task.id \in Tasks \ {t, n}
  BY <1>5, TaskFacts DEF RecordedRun, Ended, Running
<1>20. RunsHold(F)
  <2>1. \A i \in DOMAIN E.runs : F.locks.index[E.runs[i].task.id] = E.locks.index[E.runs[i].task.id]
    BY <1>8, <1>19
  <2> QED BY <1>0, <2>1 DEF RunsHold
<1>21. HoldersRun(F, n)
  <2> SUFFICES ASSUME NEW r \in Sessions, F.locks.holder[r] # None
               PROVE  /\ F.locks.index[F.locks.holder[r]] = r
                      /\ F.locks.holder[r] # n =>
                            \E i \in DOMAIN F.runs : F.runs[i].task.id = F.locks.holder[r] /\ F.runs[i].key = r
    BY Zenon DEF HoldersRun
  <2>1. CASE r = s
    BY <1>8, <2>1
  <2>2. CASE r # s
    <3>1. F.locks.holder[r] = E.locks.holder[r] /\ E.locks.holder[r] \in Tasks
      <4>1. F.locks.holder[r] = E.locks.holder[r]
        BY <1>8, <2>2
      <4> QED BY <4>1, LockFacts
    <3>2. E.locks.holder[r] # t
      BY <1>0, <2>2, <3>1, TaskFacts DEF HoldersRun
    <3>3. PICK i \in DOMAIN E.runs : E.runs[i].task.id = E.locks.holder[r] /\ E.runs[i].key = r
      BY <1>0, <3>1, <3>2, TaskFacts DEF HoldersRun
    <3>4. E.locks.holder[r] # n
      BY <1>19, <3>3
    <3>5. E.locks.index[E.locks.holder[r]] = r
      BY <1>0, <3>1, TaskFacts DEF HoldersRun
    <3>6. F.locks.index[E.locks.holder[r]] = E.locks.index[E.locks.holder[r]]
      BY <1>8, <3>1, <3>2, <3>4
    <3> QED BY <3>1, <3>3, <3>5, <3>6
  <2> QED BY <2>1, <2>2
<1>22. TimeoutsSound(F, None)
  BY <1>14 DEF TimeoutsSound, RecordedRun
<1>23. Scheduled(F, n)
  BY <1>3, <1>13, <1>14, TaskFacts DEF Scheduled
<1>24. Recorded(F, None)
  <2> SUFFICES ASSUME Timed = {}
               PROVE  /\ F.locks.armed = {} /\ \A u \in E.timedOut : F.locks.index[u] = None
                      /\ \A u \in Tasks : u # None =>
                            E.owed[u] = IF Running(E, u) /\ u \notin E.timedOut THEN 1 ELSE 0
    BY <1>14 DEF Recorded
  <2>1. ~next.timed
    BY <1>3, TaskFacts DEF RecordedRun, Ended, Shared, TasksSound, Known
  <2>2. F.locks.armed = {}
    BY <1>7, <2>1 DEF Recorded, RecordedRun
  <2>3. \A u \in E.timedOut : u \in Tasks \ {t, n}
    BY <1>5, TaskFacts DEF TimeoutsSound, RecordedRun, Ended
  <2> QED BY <1>8, <2>2, <2>3 DEF Recorded, RecordedRun
<1> QED BY <1>3, <1>8, <1>15, <1>16, <1>17, <1>18, <1>20, <1>21, <1>22, <1>23, <1>24 DEF Ready, Shared

\* The finally block: with Q the lock released or handed on.
LEMMA ReleaseFlow ==
    ASSUME NEW E \in EngineStates, NEW run \in RunRec, ~disposed,
           RecordedRun(E, run.task.id), Scheduled(E, None)
    PROVE  Flow(ReleaseAndNext(E, run))
<1> DEFINE t    == run.task.id
           next == HandedTo(E.locks, t)
           G    == [E EXCEPT !.timedOut = @ \ {t}]
           L    == Release(E.locks, t)
           F    == [G EXCEPT !.locks = L]
<1>1. t \in Tasks /\ E.locks \in Managers /\ t \notin E.timedOut
  BY TaskFacts DEF RunRec, Rec, EngineStates, RecordedRun, Ended, TimeoutsSound
<1>2. Coherent(L, Rec) /\ (next # None => next \in Rec)
  BY <1>1, RecIsTaskSet, ReleaseCoherent DEF Managers
<1>3. G = E
  BY <1>1 DEF EngineStates
<1>4. ReleaseAndNext(E, run) = IF next = None THEN F ELSE FireTask(F, next, FALSE)
  BY <1>3 DEF ReleaseAndNext
<1> HIDE DEF G, L, next
<1>5. L \in Managers
  BY <1>2 DEF Managers, Coherent, Base
<1>6. /\ F \in EngineStates /\ F.locks = L
      /\ F.tasks = E.tasks /\ F.tracked = E.tracked /\ F.loose = E.loose
      /\ F.catchup = E.catchup /\ F.runs = E.runs /\ F.timedOut = E.timedOut /\ F.owed = E.owed
  BY <1>3, <1>5, SetLocks
<1>7. CASE E.locks.index[t] = None
  <2>1. next = None /\ L = E.locks
    BY <1>7 DEF next, L, HandedTo, Release
  <2>2. F = E
    BY <1>3, <2>1 DEF EngineStates
  <2> HIDE DEF F
  <2> QED BY <1>4, <1>7, <2>1, <2>2, EndedFlow
<1>8. CASE E.locks.index[t] # None
  <2> DEFINE s == E.locks.index[t]
  <2>1. s \in Sessions
    BY <1>1, <1>8, LockFacts
  <2>2. CASE E.locks.queue[s] = <<>>
    <3>1. next = None /\ L = ClearHolder(E.locks, s)
      BY <1>8, <2>2 DEF next, L, HandedTo, Release
    <3> HIDE DEF F
    <3> QED BY <1>4, <1>6, <2>1, <3>1, FreedFlow
  <2>3. CASE E.locks.queue[s] # <<>>
    <3>1. /\ next = Head(E.locks.queue[s])
          /\ L = SetHolder(Dequeued(ClearHolder(E.locks, s), s), next, s)
      BY <1>8, <2>3 DEF next, L, HandedTo, Release
    <3> HIDE DEF F
    <3>2. next \in Rec /\ Ready(F, next) /\ F.locks.index[next.id] = LockKey(next)
      BY <1>6, <2>1, <2>3, <3>1, HandedFlow
    <3>3. ReleaseAndNext(E, run) = FireTask(F, next, FALSE)
      BY <1>4, <3>2, TaskFacts
    <3>4. F.tasks[next.id] = next /\ next # None
      BY <3>2, TaskFacts DEF Ready
    <3>5. Flow(FireTask(F, next, FALSE))
      BY <1>6, <3>2, <3>4, FireFlow DEF Ready
    <3> QED BY <3>3, <3>5
  <2> QED BY <2>2, <2>3
<1> QED BY <1>7, <1>8

LEMMA LandingsLanded ==
    ASSUME NEW run \in RunRec PROVE Landings(run.task) \subseteq Landed
BY LandingsType DEF RunRec

\* A dispatch is settled: its run leaves, its lock is released or handed on, and
\* the task has its next timer.
LEMMA SettleFlow ==
    ASSUME NEW E \in EngineStates, Flow(E), E.runs # <<>>, ~disposed, ~MayContinue,
           NEW landed \in Landings(E.runs[1].task)
    PROVE  Flow(Settle(E, E.runs[1], landed))
<1> DEFINE run == E.runs[1]
           A == [E EXCEPT !.runs = Tail(@)]
           B == Migrate(A, run, landed)
           C == RecordRun(B, run, landed)
           D == Reschedule(C, run)
<1>1. 1 \in DOMAIN E.runs
  BY TaskFacts, EmptySeq
<1>2. run \in RunRec /\ Tail(E.runs) \in Seq(RunRec) /\ run.key = LockKey(run.task)
  BY <1>1, TaskFacts, HeadTailProperties DEF Flow, Shared, RunsSound
<1>3. landed \in Landed
  BY <1>2, LandingsLanded
<1>4. /\ A \in EngineStates /\ A.runs = Tail(E.runs)
      /\ A.tasks = E.tasks /\ A.tracked = E.tracked /\ A.loose = E.loose
      /\ A.catchup = E.catchup /\ A.timedOut = E.timedOut /\ A.owed = E.owed /\ A.locks = E.locks
  BY <1>2, SetRuns
<1>5. Settle(E, run, landed) = ReleaseAndNext(D, run)
  BY DEF Settle
<1> HIDE DEF A
<1>6. Unrecorded(A, run)
  BY <1>4, TailFlow
<1> HIDE DEF run
<1>7. B \in EngineStates /\ Unrecorded(B, run)
  BY <1>2, <1>3, <1>4, <1>6, MigrateState, MigrateFlow DEF run
<1> HIDE DEF B
<1>8. C \in EngineStates
  BY <1>2, <1>3, <1>7, RecordRunState
<1>9. /\ RecordedRun(C, run.task.id) /\ C.tasks[run.task.id] = run.task
      /\ C.tracked[run.task.id] = <<>> /\ Scheduled(C, run.task.id)
  BY <1>2, <1>7, RecordFlow DEF run
<1> HIDE DEF C
<1>10. D \in EngineStates
  BY <1>2, <1>8, RescheduleState
<1>11. RecordedRun(D, run.task.id) /\ Scheduled(D, None)
  BY <1>2, <1>8, <1>9, RescheduleFlow
<1> HIDE DEF D
<1>12. Flow(Settle(E, run, landed))
  BY <1>2, <1>5, <1>10, <1>11, ReleaseFlow
<1> QED BY <1>12 DEF run

LEMMA TimeoutSets ==
    ASSUME NEW P \in EngineStates, NEW v, P.tasks[v] # None,
           NEW F, F = HandleTimeout(P, v)
    PROVE  /\ F.runs = AbortTurn(P.runs) /\ F.timedOut = P.timedOut \cup {v}
           /\ F.tasks = P.tasks /\ F.tracked = P.tracked /\ F.loose = P.loose
           /\ F.catchup = P.catchup /\ F.locks = P.locks
BY DEF HandleTimeout, EngineStates

\* A lock's timeout: its holder's run is marked and recorded.
LEMMA TimeoutFlow ==
    ASSUME NEW E \in EngineStates, NEW F \in EngineStates, NEW s \in E.locks.armed,
           NEW P \in EngineStates, Flow(E), E.locks.holder[s] \in Tasks,
           P.locks = TimeoutFired(E.locks, s),
           P.tasks = E.tasks, P.tracked = E.tracked, P.loose = E.loose, P.catchup = E.catchup,
           P.runs = E.runs, P.timedOut = E.timedOut, P.owed = E.owed,
           F = HandleTimeout(P, E.locks.holder[s])
    PROVE  Flow(F)
<1> DEFINE v == E.locks.holder[s]
<1>1. Timed # {}
  BY DEF Flow, Recorded
<1>2. s \in Sessions /\ v \in Tasks /\ v # None
  BY LockFacts, TaskFacts
<1>3. PICK i \in DOMAIN E.runs : E.runs[i].task.id = v
  BY <1>2 DEF Flow, HoldersRun
<1>4. E.tasks[v] # None
  BY <1>3, TaskFacts DEF Flow, Shared, RunsSound
<1>5. /\ F.runs = AbortTurn(E.runs) /\ F.timedOut = E.timedOut \cup {v}
      /\ F.tasks = E.tasks /\ F.tracked = E.tracked /\ F.loose = E.loose
      /\ F.catchup = E.catchup /\ F.locks = P.locks
  <2>1. P.tasks[v] # None /\ F = HandleTimeout(P, v)
    BY <1>4
  <2> HIDE DEF v
  <2>2. /\ F.runs = AbortTurn(P.runs) /\ F.timedOut = P.timedOut \cup {v}
        /\ F.tasks = P.tasks /\ F.tracked = P.tracked /\ F.loose = P.loose
        /\ F.catchup = P.catchup /\ F.locks = P.locks
    BY <2>1, TimeoutSets
  <2> QED BY <2>2
<1>6. /\ DOMAIN F.runs = DOMAIN E.runs
      /\ \A j \in DOMAIN E.runs : F.runs[j].task = E.runs[j].task /\ F.runs[j].key = E.runs[j].key
  BY <1>5, TaskFacts, AbortTurnKeeps
<1>7. F.locks.holder = E.locks.holder /\ F.locks.queue = E.locks.queue /\ F.locks.index = E.locks.index
  BY <1>5 DEF TimeoutFired
<1>8. \A u : Running(F, u) <=> Running(E, u)
  BY <1>6 DEF Running
<1>9. \A u : Waiting(F, u) <=> Waiting(E, u)
  BY <1>7 DEF Waiting, IsQueued
<1>10. TimersSound(F) /\ TasksSound(F)
  BY <1>5, <1>8, <1>9 DEF TimersSound, TasksSound, Known, Flow, Shared
<1>11. RunsSound(F)
  BY <1>5, <1>6, <1>9 DEF RunsSound, Flow, Shared
<1>12. QueuesSound(F)
  BY <1>5, <1>7 DEF QueuesSound, Flow, Shared
<1>13. RunsHold(F)
  BY <1>5, <1>6, <1>7 DEF RunsHold, Flow, Shared
<1>14. HoldersRun(F, None)
  <2> SUFFICES ASSUME NEW r \in Sessions, F.locks.holder[r] # None
               PROVE  /\ F.locks.index[F.locks.holder[r]] = r
                      /\ F.locks.holder[r] # None =>
                            \E j \in DOMAIN F.runs : F.runs[j].task.id = F.locks.holder[r] /\ F.runs[j].key = r
    BY Zenon DEF HoldersRun
  <2>1. HoldersRun(E, None) /\ E.locks.holder[r] # None
    BY <1>7 DEF Flow
  <2>2. E.locks.index[E.locks.holder[r]] = r
    BY <2>1 DEF HoldersRun
  <2>3. PICK j \in DOMAIN E.runs : E.runs[j].task.id = E.locks.holder[r] /\ E.runs[j].key = r
    BY <2>1 DEF HoldersRun
  <2> QED BY <1>6, <1>7, <2>2, <2>3
<1>15. TimeoutsSound(F, None)
  <2>1. Running(F, v)
    BY <1>3, <1>8 DEF Running
  <2> QED BY <1>5, <1>8, <2>1 DEF TimeoutsSound, Flow
<1>16. Scheduled(F, None) /\ Recorded(F, None)
  BY <1>1, <1>5, <1>8, <1>9 DEF Scheduled, Recorded, Flow
<1> QED BY <1>10, <1>11, <1>12, <1>13, <1>14, <1>15, <1>16 DEF Flow, Shared

-----------------------------------------------------------------------------
(* Every step.                                                             *)

\* The engine after a step is the engine record the step computed.
LEMMA BecomesSound ==
    ASSUME NEW E \in EngineStates, Becomes(E), UNCHANGED window, ~disposed',
           TimersSound(E), Known(E, created'), RunsSound(E), QueuesSound(E), RunsHold(E),
           HoldersRun(E, None), TimeoutsSound(E, None), Scheduled(E, None), Recorded(E, None)
    PROVE  FlowInv'
<1>1. /\ tasks' = E.tasks /\ tracked' = E.tracked /\ loose' = E.loose
      /\ catchup' = E.catchup /\ runs' = E.runs /\ timedOut' = E.timedOut
      /\ owed' = E.owed /\ locks' = E.locks
  BY DEF Becomes
<1>2. Now' = [tasks |-> tasks', tracked |-> tracked', loose |-> loose', catchup |-> catchup',
              runs |-> runs', timedOut |-> timedOut', owed |-> owed', locks |-> locks']
  BY DEF Now
<1>3. TimersSound(Now)'
  BY <1>1, <1>2 DEF TimersSound, Running, Waiting, IsQueued, Now
<1>4. TasksSound(Now)'
  BY <1>1, <1>2 DEF TasksSound, Known, Now
<1>5. RunsSound(Now)'
  BY <1>1, <1>2 DEF RunsSound, Waiting, IsQueued, LockKey, NewTarget, Pending, Now
<1>6. QueuesSound(Now)'
  BY <1>1, <1>2 DEF QueuesSound, LockKey, NewTarget, Pending, Supported, Unsupported, Now
<1>7. RunsHold(Now)' /\ HoldersRun(Now, None)'
  BY <1>1, <1>2 DEF RunsHold, HoldersRun, Now
<1>8. TimeoutsSound(Now, None)'
  BY <1>1, <1>2 DEF TimeoutsSound, Running, Now
<1>9. Scheduled(Now, None)'
  BY <1>1, <1>2 DEF Scheduled, HasNextRun, Supported, Unsupported, Running, Waiting, IsQueued, Now
<1>10. Recorded(Now, None)'
  BY <1>1, <1>2 DEF Recorded, Running, Now
<1>11. Flow(Now)'
  BY <1>3, <1>4, <1>5, <1>6, <1>7, <1>8, <1>9, <1>10 DEF Flow, Shared
<1> QED BY <1>11 DEF FlowInv

LEMMA BecomesFlow ==
    ASSUME NEW E \in EngineStates, Becomes(E), UNCHANGED <<window, created, disposed>>,
           ~disposed, Flow(E)
    PROVE  FlowInv'
<1>1. Known(E, created')
  BY DEF Flow, Shared, TasksSound
<1> QED BY <1>1, BecomesSound DEF Flow, Shared

LEMMA InitFlow == ASSUME EngineInit, ~MayMiss PROVE FlowInv
<1>1. EngineInv
  BY InitInv
<1>2. Now \in EngineStates
  BY <1>1, NowState
<1>3. PICK f \in [InitTasks -> UNION {NewTasks(t, 0) : t \in InitTasks}] :
         /\ \A t \in InitTasks : f[t].id = t
         /\ tasks = [t \in Tasks |-> IF t \in InitTasks THEN f[t] ELSE None]
  BY DEF EngineInit
<1>4. \A t \in InitTasks : /\ f[t].id = t /\ f[t].policy \in TaskPolicies /\ (f[t].timed => t \in Timed)
  <2> TAKE t \in InitTasks
  <2>1. PICK u \in InitTasks : f[t] \in NewTasks(u, 0)
    OBVIOUS
  <2>2. f[t].id = u /\ f[t].policy \in TaskPolicies /\ f[t].timed = (u \in Timed)
    BY <2>1 DEF NewTasks
  <2> QED BY <1>3, <2>2
<1>5. TasksSound(Now)
  BY <1>3, <1>4 DEF TasksSound, Known, Now, EngineInit
<1>6. runs = <<>> /\ locks = NoLocks /\ timedOut = {} /\ loose = [t \in Tasks |-> <<>>] /\ ~disposed
      /\ owed = [t \in Tasks |-> 0] /\ tracked = Rearmed(tasks)
  BY DEF EngineInit
<1>7. catchup = [t \in Tasks |-> 0]
  BY DEF EngineInit, MayHaveMissed
<1>8. \A u : ~Running(Now, u)
  BY <1>6 DEF Running, Now
<1>9. \A u : ~Waiting(Now, u)
  BY <1>6 DEF Waiting, IsQueued, Now, NoLocks
<1>10. TimersSound(Now)
  <2> SUFFICES ASSUME NEW t \in Tasks
               PROVE  /\ loose[t] = <<>> /\ catchup[t] = 0 /\ Len(tracked[t]) <= 1
                      /\ tracked[t] # <<>> => tasks[t] # None /\ tracked[t][1].id = t
    BY <1>8, <1>9 DEF TimersSound, Now
  <2>1. CASE tracked[t] = <<>>
    BY <1>6, <1>7, <2>1
  <2>2. CASE tracked[t] # <<>>
    <3>1. tracked[t] = <<tasks[t]>> /\ tasks[t] # None
      BY <1>6, <2>2 DEF Rearmed
    <3>2. tasks[t].id = t
      BY <1>5, <3>1 DEF TasksSound, Known, Now
    <3>3. Len(<<tasks[t]>>) = 1 /\ <<tasks[t]>>[1] = tasks[t]
      OBVIOUS
    <3> QED BY <1>6, <1>7, <3>1, <3>2, <3>3
  <2> QED BY <2>1, <2>2
<1>11. RunsSound(Now) /\ RunsHold(Now)
  BY <1>6 DEF RunsSound, RunsHold, Now
<1>12. QueuesSound(Now) /\ HoldersRun(Now, None)
  BY <1>6 DEF QueuesSound, HoldersRun, Now, NoLocks
<1>13. TimeoutsSound(Now, None)
  BY <1>6 DEF TimeoutsSound, Now
<1>14. Scheduled(Now, None)
  BY <1>6 DEF Scheduled, Now, Rearmed
<1>15. Recorded(Now, None)
  BY <1>6, <1>8 DEF Recorded, Now, NoLocks
<1> QED BY <1>5, <1>6, <1>10, <1>11, <1>12, <1>13, <1>14, <1>15 DEF FlowInv, Flow, Shared

LEMMA CreateFlow == ASSUME EngineInv, FlowInv, NEW t \in Tasks, Create(t) PROVE FlowInv'
<1>1. PICK task \in NewTasks(t, 0) : Becomes(ScheduleOne([Now EXCEPT !.tasks[t] = task], task))
  BY DEF Create
<1> DEFINE v == [tasks EXCEPT ![t] = task]
           D == [Now EXCEPT !.tasks = v]
           F == ScheduleOne(D, task)
<1>2. /\ task \in Rec /\ task.id = t /\ task.policy \in TaskPolicies /\ (task.timed => t \in Timed)
      /\ task # None
  BY NewTasksType, TaskFacts, EngineAssumption DEF NewTasks
<1>3. Now \in EngineStates /\ Now.tasks = tasks
  BY NowState DEF Now
<1>4. v \in [Tasks -> Rec \cup {None}]
  BY <1>2, <1>3, TaskFacts
<1>5. Becomes(F)
  BY <1>1, <1>3
<1>6. tasks[t] = None /\ created' = created \cup {t}
  BY <1>3 DEF Create, FlowInv, Flow, Shared, TasksSound, Known
<1>7. v[t] = task /\ \A u \in Tasks \ {t} : v[u] = tasks[u]
  BY <1>3, TaskFacts
<1> HIDE DEF v
<1>8. /\ D \in EngineStates /\ D.tasks = v /\ D.tracked = Now.tracked /\ D.loose = Now.loose
      /\ D.catchup = Now.catchup /\ D.runs = Now.runs /\ D.timedOut = Now.timedOut
      /\ D.owed = Now.owed /\ D.locks = Now.locks
  BY <1>3, <1>4, SetTasks
<1> HIDE DEF D
<1>9. F \in EngineStates
  BY <1>2, <1>8, ScheduleOneState
<1>10. Idle(Now, t) /\ Now.loose[t] = <<>> /\ Now.catchup[t] = 0
  <2>1. ~Running(Now, t)
    BY <1>2, <1>3, <1>6, TaskFacts DEF FlowInv, Flow, Shared, RunsSound, Running
  <2>2. ~Waiting(Now, t)
    BY <1>3, <1>6, LockFacts, TaskFacts DEF FlowInv, Flow, Shared, QueuesSound, Waiting, IsQueued
  <2>3. Now.tracked[t] = <<>> /\ Now.loose[t] = <<>> /\ Now.catchup[t] = 0
    BY <1>3, <1>6 DEF FlowInv, Flow, Shared, TimersSound
  <2> QED BY <2>1, <2>2, <2>3 DEF Idle
<1>11. /\ F.tasks = v /\ F.catchup = Now.catchup /\ F.runs = Now.runs
       /\ F.timedOut = Now.timedOut /\ F.owed = Now.owed /\ F.locks = Now.locks
       /\ F.loose[t] = <<>> /\ Len(F.tracked[t]) <= 1
       /\ F.tracked[t] # <<>> => F.tracked[t][1].id = t
       /\ HasNextRun(task) /\ Supported(task) => F.tracked[t] # <<>>
       /\ \A u \in Tasks \ {t} : F.loose[u] = Now.loose[u] /\ F.tracked[u] = Now.tracked[u]
  <2>1. CASE ~(HasNextRun(task) /\ Supported(task))
    <3>1. F = D
      BY <2>1 DEF ScheduleOne
    <3>2. Len(<<>>) <= 1
      OBVIOUS
    <3> QED BY <1>8, <1>10, <2>1, <3>1, <3>2 DEF Idle
  <2>2. CASE HasNextRun(task) /\ Supported(task)
    <3>1. /\ F.tracked = [D.tracked EXCEPT ![task.id] = <<task>>]
          /\ F.loose = [D.loose EXCEPT ![task.id] = D.loose[task.id] \o D.tracked[task.id]]
          /\ F.tasks = D.tasks /\ F.runs = D.runs /\ F.timedOut = D.timedOut
          /\ F.owed = D.owed /\ F.catchup = D.catchup /\ F.locks = D.locks
      BY <1>2, <1>8, <2>2, ScheduleOneFields DEF FlowInv
    <3> HIDE DEF F
    <3>2. F.tracked[t] = <<task>> /\ F.loose[t] = <<>>
          /\ \A u \in Tasks \ {t} : F.loose[u] = Now.loose[u] /\ F.tracked[u] = Now.tracked[u]
      BY <1>2, <1>3, <1>8, <1>10, <3>1, TaskFacts DEF Idle
    <3>3. Len(<<task>>) = 1 /\ <<task>>[1] = task /\ <<task>> # <<>>
      OBVIOUS
    <3>4. F.tracked[t] # <<>> /\ Len(F.tracked[t]) <= 1 /\ F.tracked[t][1].id = t
      BY <1>2, <3>2, <3>3
    <3> QED BY <1>8, <3>1, <3>2, <3>4
  <2> QED BY <2>1, <2>2
<1> HIDE DEF F
<1>12. \A u : Running(F, u) <=> Running(Now, u)
  BY <1>11 DEF Running
<1>13. \A u : Waiting(F, u) <=> Waiting(Now, u)
  BY <1>11 DEF Waiting
<1>14. TimersSound(F)
  <2> SUFFICES ASSUME NEW u \in Tasks
               PROVE  /\ F.loose[u] = <<>> /\ F.catchup[u] = 0 /\ Len(F.tracked[u]) <= 1
                      /\ F.tracked[u] # <<>> => /\ F.tasks[u] # None /\ F.tracked[u][1].id = u
                                                /\ ~Running(F, u) /\ ~Waiting(F, u)
    BY DEF TimersSound
  <2>1. CASE u = t
    BY <1>2, <1>7, <1>10, <1>11, <1>12, <1>13, <2>1 DEF Idle
  <2>2. CASE u # t
    BY <1>7, <1>11, <1>12, <1>13, <1>3, <2>2 DEF FlowInv, Flow, Shared, TimersSound
  <2> QED BY <2>1, <2>2
<1>15. Known(F, created')
  BY <1>2, <1>3, <1>6, <1>7, <1>11 DEF Known, FlowInv, Flow, Shared, TasksSound
<1>16. RunsSound(F)
  <2>1. \A i \in DOMAIN Now.runs : Now.runs[i].task.id \in Tasks \ {t}
    BY <1>3, <1>10, TaskFacts DEF Idle, Running
  <2> QED BY <1>3, <1>7, <1>11, <1>13, <2>1 DEF RunsSound, FlowInv, Flow, Shared
<1>17. QueuesSound(F)
  <2>1. \A s \in Sessions : \A i \in DOMAIN Now.locks.queue[s] : Now.locks.queue[s][i].id \in Tasks \ {t}
    BY <1>3, <1>10, LockFacts DEF Idle, Waiting, IsQueued, Rec
  <2> QED BY <1>3, <1>7, <1>11, <2>1 DEF QueuesSound, FlowInv, Flow, Shared
<1>18. RunsHold(F) /\ HoldersRun(F, None)
  BY <1>11 DEF RunsHold, HoldersRun, FlowInv, Flow, Shared
<1>19. TimeoutsSound(F, None) /\ Recorded(F, None)
  BY <1>11, <1>12 DEF TimeoutsSound, Recorded, FlowInv, Flow
<1>20. Scheduled(F, None)
  BY <1>3, <1>7, <1>11, <1>12, <1>13 DEF Scheduled, FlowInv, Flow
<1> QED BY <1>5, <1>9, <1>14, <1>15, <1>16, <1>17, <1>18, <1>19, <1>20, BecomesSound DEF Create, FlowInv

LEMMA TimerFiresFlow == ASSUME EngineInv, FlowInv, NEW t \in Tasks, TimerFires(t) PROVE FlowInv'
<1>1. PICK i \in 1 .. Len(Armed(t)) :
         Becomes(FireTask([Now EXCEPT !.loose[t] = RemoveAt(Armed(t), i), !.tracked[t] = <<>>],
                          Armed(t)[i], FALSE))
  BY DEF TimerFires
<1>2. Now \in EngineStates /\ Now.loose = loose /\ Now.tracked = tracked
  BY NowState DEF Now
<1>3. TimersSound(Now)
  BY DEF FlowInv, Flow, Shared
<1> DEFINE a == tracked[t]
<1>4. a \in Seq(Rec) /\ loose[t] = <<>> /\ Len(a) <= 1
  BY <1>2, <1>3, TaskFacts DEF TimersSound
<1>5. Armed(t) = a
  BY <1>4, ConcatEmptySeq DEF Armed
<1>6. i = 1 /\ Len(a) = 1 /\ a # <<>> /\ a[1] \in Rec
  <2>1. i \in 1 .. Len(a)
    BY <1>5
  <2> HIDE DEF a
  <2>2. Len(a) \in Nat /\ i = 1 /\ Len(a) = 1
    BY <1>4, <2>1, LenProperties
  <2>3. a # <<>>
    BY <2>2
  <2> QED BY <1>4, <2>2, <2>3, ElementOfSeq
<1>7. /\ tasks[t] # None /\ a[1].id = t /\ ~Running(Now, t) /\ ~Waiting(Now, t)
  BY <1>2, <1>3, <1>6 DEF TimersSound, Now
<1> DEFINE q == RemoveAt(a, 1)
           v == [Now.loose EXCEPT ![t] = q]
           D == [Now EXCEPT !.loose = v]
           w == [D.tracked EXCEPT ![t] = <<>>]
           E == [D EXCEPT !.tracked = w]
           obj == a[1]
<1>8. Becomes(FireTask(E, obj, FALSE))
  BY <1>1, <1>5, <1>6
<1>9. q = <<>>
  <2> HIDE DEF a
  <2>1. q = SubSeq(a, 1, 0) \o SubSeq(a, 2, 1)
    BY <1>6 DEF RemoveAt
  <2>2. SubSeq(a, 1, 0) = <<>> /\ SubSeq(a, 2, 1) = <<>>
    OBVIOUS
  <2> QED BY <2>1, <2>2
<1> HIDE DEF q
<1>10. v = loose
  BY <1>2, <1>4, <1>9, TaskFacts
<1> HIDE DEF v
<1>11. /\ D \in EngineStates /\ D.tasks = Now.tasks /\ D.tracked = tracked /\ D.loose = loose
       /\ D.catchup = Now.catchup /\ D.runs = Now.runs /\ D.timedOut = Now.timedOut
       /\ D.owed = Now.owed /\ D.locks = Now.locks
  <2>1. v \in [Tasks -> Seq(Rec)]
    BY <1>2, <1>10, TaskFacts
  <2>2. /\ D \in EngineStates /\ D.loose = v /\ D.tasks = Now.tasks /\ D.tracked = Now.tracked
        /\ D.catchup = Now.catchup /\ D.runs = Now.runs /\ D.timedOut = Now.timedOut
        /\ D.owed = Now.owed /\ D.locks = Now.locks
    BY <1>2, <2>1, SetLoose
  <2> HIDE DEF D
  <2> QED BY <1>2, <1>10, <2>2
<1> HIDE DEF D
<1>12. w \in [Tasks -> Seq(Rec)] /\ w[t] = <<>> /\ \A u \in Tasks \ {t} : w[u] = tracked[u]
  <2>1. <<>> \in Seq(Rec) /\ D.tracked \in [Tasks -> Seq(Rec)]
    BY <1>11, TaskFacts, EmptySeq
  <2> QED BY <1>11, <2>1
<1> HIDE DEF w
<1>13. /\ E \in EngineStates /\ E.tasks = Now.tasks /\ E.tracked = w /\ E.loose = Now.loose
       /\ E.catchup = Now.catchup /\ E.runs = Now.runs /\ E.timedOut = Now.timedOut
       /\ E.owed = Now.owed /\ E.locks = Now.locks
  BY <1>2, <1>11, <1>12, SetTracked
<1> HIDE DEF E
<1>14. \A u : Running(E, u) <=> Running(Now, u)
  BY <1>13 DEF Running
<1>15. \A u : Waiting(E, u) <=> Waiting(Now, u)
  BY <1>13 DEF Waiting
<1>16. TimersSound(E)
  <2> SUFFICES ASSUME NEW u \in Tasks
               PROVE  /\ E.loose[u] = <<>> /\ E.catchup[u] = 0 /\ Len(E.tracked[u]) <= 1
                      /\ E.tracked[u] # <<>> => /\ E.tasks[u] # None /\ E.tracked[u][1].id = u
                                                /\ ~Running(E, u) /\ ~Waiting(E, u)
    BY DEF TimersSound
  <2>1. Len(<<>>) <= 1
    OBVIOUS
  <2>2. CASE u = t
    BY <1>3, <1>12, <1>13, <2>1, <2>2 DEF TimersSound
  <2>3. CASE u # t
    BY <1>2, <1>3, <1>12, <1>13, <1>14, <1>15, <2>3 DEF TimersSound
  <2> QED BY <2>2, <2>3
<1>17. Shared(E)
  <2>1. TasksSound(E) /\ RunsHold(E)
    BY <1>13 DEF TasksSound, Known, RunsHold, FlowInv, Flow, Shared
  <2>2. RunsSound(E) /\ QueuesSound(E)
    BY <1>13, <1>15 DEF RunsSound, QueuesSound, FlowInv, Flow, Shared
  <2> QED BY <1>16, <2>1, <2>2 DEF Shared
<1>18. HoldersRun(E, None) /\ TimeoutsSound(E, None) /\ Recorded(E, None)
  BY <1>13, <1>14 DEF HoldersRun, TimeoutsSound, Recorded, FlowInv, Flow
<1>19. HoldersRun(E, t)
  BY <1>13 DEF HoldersRun, FlowInv, Flow
<1>20. Scheduled(E, t)
  <2>1. None \notin Tasks
    BY <1>2, TaskFacts
  <2> QED BY <1>2, <1>12, <1>13, <1>14, <1>15, <2>1 DEF Scheduled, FlowInv, Flow
<1>21. Idle(E, t) /\ E.tasks[t] # None
  BY <1>7, <1>12, <1>13, <1>14, <1>15 DEF Idle, Now
<1>22. obj \in Rec /\ obj.id = t
  BY <1>6, <1>7
<1> HIDE DEF obj, a
<1>23. ~disposed
  BY DEF FlowInv
<1>24. FireTask(E, obj, FALSE) \in EngineStates
  BY <1>13, <1>22, FireTaskState
<1>25. Flow(FireTask(E, obj, FALSE))
  BY <1>13, <1>17, <1>18, <1>19, <1>20, <1>21, <1>22, <1>23, FireFlow
<1>26. UNCHANGED <<window, created, disposed>>
  BY DEF TimerFires
<1> QED BY <1>8, <1>23, <1>24, <1>25, <1>26, BecomesFlow

LEMMA DispatchStartsFlow ==
    ASSUME EngineInv, FlowInv, ~MayContinue, DispatchStarts PROVE FlowInv'
<1> DEFINE r == [runs[1] EXCEPT !.started = TRUE]
           v == [runs EXCEPT ![1] = r]
           E == [Now EXCEPT !.runs = v]
<1>1. Now \in EngineStates /\ Now.runs = runs /\ runs # <<>> /\ ~disposed
  BY NowState DEF DispatchStarts, FlowInv, Now
<1>2. UNCHANGED <<window, created, disposed>>
  BY DEF DispatchStarts
<1>3. CASE runs[1].task.id \in timedOut
  <2>1. Becomes(Settle(Now, runs[1], None))
    BY <1>3 DEF DispatchStarts
  <2>2. None \in Landings(Now.runs[1].task) /\ None \in Landed
    BY DEF Landings, Landed
  <2>3. Settle(Now, runs[1], None) \in EngineStates /\ Flow(Settle(Now, runs[1], None))
    BY <1>1, <2>2, SettleState, SettleFlow DEF FlowInv
  <2> QED BY <1>1, <1>2, <2>1, <2>3, BecomesFlow
<1>4. CASE runs[1].task.id \notin timedOut
  <2>1. Becomes(E)
    BY <1>1, <1>4 DEF DispatchStarts, Now
  <2>2. 1 \in DOMAIN runs /\ runs[1] \in RunRec /\ runs \in Seq(RunRec)
    BY <1>1, TaskFacts, EmptySeq
  <2>3. r \in RunRec /\ r.task = runs[1].task /\ r.key = runs[1].key
    BY <2>2 DEF RunRec
  <2> HIDE DEF r
  <2>4. /\ v \in Seq(RunRec) /\ DOMAIN v = DOMAIN runs
        /\ \A i \in DOMAIN v : v[i].task = runs[i].task /\ v[i].key = runs[i].key
    BY <2>2, <2>3, ExceptSeq
  <2> HIDE DEF v
  <2>5. /\ E \in EngineStates /\ E.runs = v /\ E.tasks = Now.tasks /\ E.tracked = Now.tracked
        /\ E.loose = Now.loose /\ E.catchup = Now.catchup /\ E.timedOut = Now.timedOut
        /\ E.owed = Now.owed /\ E.locks = Now.locks
    BY <1>1, <2>4, SetRuns
  <2> HIDE DEF E
  <2>6. \A u : Running(E, u) <=> Running(Now, u)
    BY <1>1, <2>4, <2>5 DEF Running
  <2>7. \A u : Waiting(E, u) <=> Waiting(Now, u)
    BY <2>5 DEF Waiting
  <2>8. TimersSound(E) /\ TasksSound(E)
    BY <2>5, <2>6, <2>7 DEF TimersSound, TasksSound, Known, FlowInv, Flow, Shared
  <2>9. RunsSound(E) /\ QueuesSound(E)
    BY <1>1, <2>4, <2>5, <2>7 DEF RunsSound, QueuesSound, FlowInv, Flow, Shared
  <2>10. RunsHold(E) /\ HoldersRun(E, None)
    BY <1>1, <2>4, <2>5 DEF RunsHold, HoldersRun, FlowInv, Flow, Shared
  <2>11. TimeoutsSound(E, None) /\ Scheduled(E, None) /\ Recorded(E, None)
    BY <2>5, <2>6, <2>7 DEF TimeoutsSound, Scheduled, Recorded, FlowInv, Flow
  <2>12. Flow(E)
    BY <2>8, <2>9, <2>10, <2>11 DEF Flow, Shared
  <2> QED BY <1>1, <1>2, <2>1, <2>5, <2>12, BecomesFlow
<1> QED BY <1>3, <1>4

LEMMA DispatchEndsFlow ==
    ASSUME EngineInv, FlowInv, ~MayContinue, DispatchEnds PROVE FlowInv'
<1>1. PICK landed \in Landings(runs[1].task) : Becomes(Settle(Now, runs[1], landed))
  BY DEF DispatchEnds
<1>2. Now \in EngineStates /\ Now.runs = runs /\ runs # <<>> /\ ~disposed
  BY NowState DEF DispatchEnds, FlowInv, Now
<1>3. runs[1] \in RunRec
  BY <1>2, TaskFacts, EmptySeq
<1>4. landed \in Landed
  BY <1>3, LandingsLanded
<1>5. Settle(Now, runs[1], landed) \in EngineStates /\ Flow(Settle(Now, runs[1], landed))
  BY <1>2, <1>4, SettleState, SettleFlow DEF FlowInv
<1>6. UNCHANGED <<window, created, disposed>>
  BY DEF DispatchEnds
<1> QED BY <1>1, <1>2, <1>5, <1>6, BecomesFlow

LEMMA LockTimesOutFlow ==
    ASSUME EngineInv, FlowInv, NEW s \in Sessions, LockTimesOut(s) PROVE FlowInv'
<1> DEFINE L == TimeoutFired(locks, s)
           P == [Now EXCEPT !.locks = L]
           F == HandleTimeout(P, locks.holder[s])
<1>1. Becomes(F) /\ s \in locks.armed
  BY DEF LockTimesOut, Now
<1>2. Now \in EngineStates /\ Now.locks = locks /\ ~disposed
  BY NowState DEF FlowInv, Now
<1>3. locks.holder[s] \in Tasks
  BY <1>1 DEF EngineInv, Coherent, Base, Shape
<1>4. L \in Managers
  <2>1. Coherent(L, Rec)
    BY <1>1, TimeoutFiredCoherent DEF EngineInv
  <2> HIDE DEF L
  <2> QED BY <2>1 DEF Managers, Coherent, Base
<1>5. L = TimeoutFired(locks, s)
  OBVIOUS
<1> HIDE DEF L
<1>6. /\ P \in EngineStates /\ P.locks = L /\ P.tasks = Now.tasks /\ P.tracked = Now.tracked
      /\ P.loose = Now.loose /\ P.catchup = Now.catchup /\ P.runs = Now.runs
      /\ P.timedOut = Now.timedOut /\ P.owed = Now.owed
  BY <1>2, <1>4, SetLocks
<1> HIDE DEF P
<1>7. F \in EngineStates
  BY <1>3, <1>6, HandleTimeoutState
<1>8. F = HandleTimeout(P, Now.locks.holder[s])
  BY <1>2
<1> HIDE DEF F
<1>9. Flow(F)
  BY <1>1, <1>2, <1>3, <1>5, <1>6, <1>7, <1>8, TimeoutFlow DEF FlowInv
<1>10. UNCHANGED <<window, created, disposed>>
  BY DEF LockTimesOut
<1> QED BY <1>1, <1>2, <1>7, <1>9, <1>10, BecomesFlow

\* A slot less to come asks for nothing new.
LEMMA WindowClosesFlow ==
    ASSUME EngineInv, FlowInv, NEW t \in Tasks, WindowCloses(t) PROVE FlowInv'
<1>1. UNCHANGED <<tasks, tracked, loose, catchup, runs, timedOut, owed, locks, disposed, created>>
  BY DEF WindowCloses, engine
<1>2. \A u \in Tasks : window'[u] = "open" => window[u] = "open"
  <2>1. window \in [Tasks -> {"open", "last", "over"}]
    BY DEF EngineInv, EngineTypeOK
  <2> QED BY <2>1 DEF WindowCloses
<1>3. \A u \in Tasks : tasks[u] # None => tasks[u].id = u
  BY DEF FlowInv, Flow, Shared, TasksSound, Known, Now
<1>4. (TimersSound(Now) /\ TasksSound(Now))'
  BY <1>1 DEF TimersSound, TasksSound, Known, Running, Waiting, IsQueued, Now, FlowInv, Flow, Shared
<1>5. RunsSound(Now)'
  BY <1>1 DEF RunsSound, Waiting, IsQueued, LockKey, NewTarget, Pending, Now, FlowInv, Flow, Shared
<1>6. QueuesSound(Now)'
  BY <1>1 DEF QueuesSound, LockKey, NewTarget, Pending, Supported, Unsupported, Now, FlowInv, Flow, Shared
<1>7. (RunsHold(Now) /\ HoldersRun(Now, None))'
  BY <1>1 DEF RunsHold, HoldersRun, Now, FlowInv, Flow, Shared
<1>8. (TimeoutsSound(Now, None) /\ Recorded(Now, None))'
  BY <1>1 DEF TimeoutsSound, Recorded, Running, Now, FlowInv, Flow
<1>9. Scheduled(Now, None)'
  <2>1. Scheduled(Now, None)
    BY DEF FlowInv, Flow
  <2> QED BY <1>1, <1>2, <1>3, <2>1
          DEF Scheduled, HasNextRun, Supported, Unsupported, Running, Waiting, IsQueued, Now
<1>10. Flow(Now)'
  BY <1>4, <1>5, <1>6, <1>7, <1>8, <1>9 DEF Flow, Shared
<1> QED BY <1>1, <1>10 DEF FlowInv

LEMMA StutterFlow == ASSUME FlowInv, UNCHANGED evars PROVE FlowInv'
<1>1. UNCHANGED <<tasks, tracked, loose, catchup, runs, timedOut, owed, locks, disposed,
                  window, created>>
  BY DEF evars, engine
<1>2. (TimersSound(Now) /\ TasksSound(Now))'
  BY <1>1 DEF TimersSound, TasksSound, Known, Running, Waiting, IsQueued, Now, FlowInv, Flow, Shared
<1>3. RunsSound(Now)'
  BY <1>1 DEF RunsSound, Waiting, IsQueued, LockKey, NewTarget, Pending, Now, FlowInv, Flow, Shared
<1>4. QueuesSound(Now)'
  BY <1>1 DEF QueuesSound, LockKey, NewTarget, Pending, Supported, Unsupported, Now, FlowInv, Flow, Shared
<1>5. (RunsHold(Now) /\ HoldersRun(Now, None))'
  BY <1>1 DEF RunsHold, HoldersRun, Now, FlowInv, Flow, Shared
<1>6. (TimeoutsSound(Now, None) /\ Recorded(Now, None))'
  BY <1>1 DEF TimeoutsSound, Recorded, Running, Now, FlowInv, Flow
<1>7. Scheduled(Now, None)'
  BY <1>1 DEF Scheduled, HasNextRun, Supported, Unsupported, Running, Waiting, IsQueued, Now, FlowInv, Flow
<1>8. Flow(Now)'
  BY <1>2, <1>3, <1>4, <1>5, <1>6, <1>7 DEF Flow, Shared
<1> QED BY <1>1, <1>8 DEF FlowInv

\* The invariant holds in every reachable state.
THEOREM FlowInvariant == OnlyCreates => (EngineSpec => []FlowInv)
<1> SUFFICES ASSUME OnlyCreates PROVE EngineSpec => []FlowInv
  OBVIOUS
<1>1. Ops \subseteq {"create"} /\ ~MayMiss /\ ~MayContinue
  BY DEF OnlyCreates
<1>2. EngineInit => FlowInv
  BY <1>1, InitFlow
<1>3. EngineInv /\ FlowInv /\ [EngineNext]_evars => FlowInv'
  <2> SUFFICES ASSUME EngineInv, FlowInv, [EngineNext]_evars PROVE FlowInv'
    OBVIOUS
  <2>1. \A t \in Tasks : ~Update(t) /\ ~Delete(t) /\ ~RunNow(t)
    BY <1>1 DEF Update, Delete, RunNow, Command
  <2>2. ~Reload /\ ~Dispose
    BY <1>1 DEF Reload, Dispose, Command
  <2>3. \A t \in Tasks : ~CatchUpFires(t)
    <3>1. Now.catchup = catchup /\ TimersSound(Now)
      BY DEF Now, FlowInv, Flow, Shared
    <3>2. \A t \in Tasks : catchup[t] = 0
      BY <3>1 DEF TimersSound
    <3>3. ASSUME NEW t \in Tasks, CatchUpFires(t) PROVE catchup[t] > 0
      BY <3>3 DEF CatchUpFires
    <3>4. ~(0 > 0)
      OBVIOUS
    <3> QED BY <3>2, <3>3, <3>4
  <2>4. ASSUME NEW t \in Tasks, Create(t) PROVE FlowInv'
    BY <2>4, CreateFlow
  <2>5. ASSUME NEW t \in Tasks, TimerFires(t) \/ WindowCloses(t) PROVE FlowInv'
    BY <2>5, TimerFiresFlow, WindowClosesFlow
  <2>6. CASE DispatchStarts \/ DispatchEnds
    BY <1>1, <2>6, DispatchStartsFlow, DispatchEndsFlow
  <2>7. ASSUME NEW s \in Sessions, LockTimesOut(s) PROVE FlowInv'
    BY <2>7, LockTimesOutFlow
  <2>8. CASE UNCHANGED evars
    BY <2>8, StutterFlow
  <2> QED BY <2>1, <2>2, <2>3, <2>4, <2>5, <2>6, <2>7, <2>8 DEF EngineNext
<1> QED BY <1>2, <1>3, EngineInvariant, PTL DEF EngineSpec

-----------------------------------------------------------------------------
(* What the invariant promises.                                            *)

\* However timers, queued runs and timeouts meet, a task has at most one run in
\* flight and one timer armed (engine.ts: an overlap must not dispatch a task
\* twice, and each slot is fired once).
THEOREM TasksAlwaysFireOnce == OnlyCreates => (EngineSpec => []TasksFireOnce)
<1>1. EngineInv /\ FlowInv => TasksFireOnce
  <2> SUFFICES ASSUME EngineInv, FlowInv PROVE TasksFireOnce
    OBVIOUS
  <2>1. Now \in EngineStates /\ Now.runs = runs /\ Now.loose = loose /\ Now.tracked = tracked
    BY NowState DEF Now
  <2>2. OneRunPerTask
    <3> SUFFICES ASSUME NEW t \in Tasks PROVE Cardinality(RunsOf(t)) <= 1
      BY DEF OneRunPerTask
    <3>1. CASE RunsOf(t) = {}
      <4>1. Cardinality(RunsOf(t)) = 0
        BY <3>1, FS_EmptySet
      <4> QED BY <4>1
    <3>2. CASE RunsOf(t) # {}
      <4>1. PICK i \in DOMAIN runs : runs[i].task.id = t
        BY <3>2 DEF RunsOf
      <4>2. \A j \in DOMAIN runs : runs[j].task.id = t => j = i
        BY <2>1, <4>1 DEF FlowInv, Flow, Shared, RunsSound
      <4>3. RunsOf(t) = {i}
        BY <4>1, <4>2 DEF RunsOf
      <4>4. Cardinality({i}) = 1
        BY FS_Singleton
      <4> QED BY <4>3, <4>4
    <3> QED BY <3>1, <3>2
  <2>3. OneTimer
    <3> SUFFICES ASSUME NEW t \in Tasks PROVE Len(Armed(t)) <= 1
      BY DEF OneTimer
    <3>1. loose[t] = <<>> /\ tracked[t] \in Seq(Rec) /\ Len(tracked[t]) <= 1
      BY <2>1, TaskFacts DEF FlowInv, Flow, Shared, TimersSound
    <3>2. Armed(t) = tracked[t]
      BY <3>1, ConcatEmptySeq DEF Armed
    <3> QED BY <3>1, <3>2
  <2> QED BY <2>2, <2>3 DEF TasksFireOnce
<1> QED BY <1>1, EngineInvariant, FlowInvariant, PTL

\* A run has its session to itself and owns the lock it was acquired for, unless
\* a timeout or a preemption has taken it away; a held lock has a run that will
\* release it; and recordedByTimeout is about a run in flight.
THEOREM RunsAlwaysHoldLocks == OnlyCreates => (EngineSpec => []RunsHoldLocks)
<1>1. EngineInv /\ FlowInv => RunsHoldLocks
  <2> SUFFICES ASSUME EngineInv, FlowInv PROVE RunsHoldLocks
    OBVIOUS
  <2>1. /\ Now \in EngineStates /\ Now.runs = runs /\ Now.locks = locks /\ Now.timedOut = timedOut
        /\ Flow(Now)
    BY NowState DEF Now, FlowInv
  <2>2. \A i \in DOMAIN runs : /\ runs[i].task.id \in Tasks /\ runs[i].key \in Sessions
                               /\ runs[i].key = LockKey(runs[i].task)
    BY <2>1, TaskFacts DEF Flow, Shared, RunsSound
  <2>3. \A i \in DOMAIN runs : runs[i].task.id \in timedOut
                               \/ locks.holder[runs[i].key] = runs[i].task.id
    <3> SUFFICES ASSUME NEW i \in DOMAIN runs, runs[i].task.id \notin timedOut
                 PROVE  locks.holder[runs[i].key] = runs[i].task.id
      OBVIOUS
    <3>1. locks.index[runs[i].task.id] = runs[i].key
      BY <2>1 DEF Flow, Shared, RunsHold
    <3>2. /\ None \notin Sessions
          /\ \A t \in Tasks : locks.index[t] # None => locks.holder[locks.index[t]] = t
      BY <2>1, LockFacts, TaskFacts
    <3> QED BY <2>2, <3>1, <3>2
  <2>4. RunOwnsLock
    BY <2>3 DEF RunOwnsLock
  <2>5. SessionExclusive
    <3> SUFFICES ASSUME NEW i \in DOMAIN runs, NEW j \in DOMAIN runs,
                        runs[i].task.target = runs[j].task.target, runs[i].task.target \in Rooms,
                        {runs[i].task.id, runs[j].task.id} \cap timedOut = {}
                 PROVE  i = j
      BY DEF SessionExclusive
    <3>1. NewTarget \notin Rooms
      BY EngineAssumption
    <3>2. runs[i].key = runs[j].key
      BY <2>2, <3>1 DEF LockKey
    <3>3. runs[i].task.id = runs[j].task.id
      BY <2>3, <3>2
    <3> QED BY <2>1, <3>3 DEF Flow, Shared, RunsSound
  <2>6. LockHasRun
    BY <2>1, LockFacts, TaskFacts DEF LockHasRun, RunsOf, Flow, HoldersRun
  <2>7. TimeoutFlagHasRun
    BY <2>1, TaskFacts DEF TimeoutFlagHasRun, RunsOf, Flow, TimeoutsSound, Running
  <2> QED BY <2>4, <2>5, <2>6, <2>7 DEF RunsHoldLocks
<1> QED BY <1>1, EngineInvariant, FlowInvariant, PTL

\* Where no task skips an overlapping slot, an enabled task with a slot to come
\* is never forgotten: it has a timer, or a run or a place in a queue whose end
\* sets the next timer.
THEOREM AlwaysStaysScheduled ==
    OnlyCreates /\ "skip" \notin TaskPolicies => (EngineSpec => []StaysScheduled)
<1> SUFFICES ASSUME OnlyCreates, "skip" \notin TaskPolicies PROVE EngineSpec => []StaysScheduled
  OBVIOUS
<1>1. EngineInv /\ FlowInv => StaysScheduled
  <2> SUFFICES ASSUME EngineInv, FlowInv, NEW t \in Tasks,
                      tasks[t] # None /\ HasNextRun(tasks[t]) /\ Supported(tasks[t])
               PROVE  Armed(t) # <<>> \/ RunsOf(t) # {} \/ IsWaiting(t)
    BY DEF StaysScheduled
  <2>1. /\ Now \in EngineStates /\ Now.tasks = tasks /\ Now.tracked = tracked /\ Now.loose = loose
        /\ Now.runs = runs /\ Now.locks = locks /\ Flow(Now)
    BY NowState DEF Now, FlowInv
  <2>2. tracked[t] # <<>> \/ Running(Now, t) \/ Waiting(Now, t)
    BY <2>1, TaskFacts DEF Flow, Scheduled
  <2>3. Armed(t) = tracked[t]
    <3>1. loose[t] = <<>> /\ tracked[t] \in Seq(Rec)
      BY <2>1, TaskFacts DEF Flow, Shared, TimersSound
    <3> QED BY <3>1, ConcatEmptySeq DEF Armed
  <2>4. Running(Now, t) => RunsOf(t) # {}
    BY <2>1 DEF Running, RunsOf
  <2>5. Waiting(Now, t) => IsWaiting(t)
    BY <2>1 DEF Waiting, IsWaiting
  <2> QED BY <2>2, <2>3, <2>4, <2>5
<1> QED BY <1>1, EngineInvariant, FlowInvariant, PTL

\* Where no task has a timeout, a fired run leaves exactly one record in
\* runs.jsonl: its result, or the record of the preemption that ended it.
THEOREM OneRecordAlways ==
    OnlyCreates /\ Timed = {} => (EngineSpec => []OneRecordPerRun)
<1> SUFFICES ASSUME OnlyCreates, Timed = {} PROVE EngineSpec => []OneRecordPerRun
  OBVIOUS
<1>1. EngineInv /\ FlowInv => OneRecordPerRun
  <2> SUFFICES ASSUME EngineInv, FlowInv PROVE OneRecordPerRun
    OBVIOUS
  <2>1. /\ Now \in EngineStates /\ Now.runs = runs /\ Now.timedOut = timedOut /\ Now.owed = owed
        /\ Flow(Now)
    BY NowState DEF Now, FlowInv
  <2> SUFFICES ASSUME NEW t \in Tasks
               PROVE  owed[t] = Cardinality(RunsOf(t)) - Cardinality({t} \cap timedOut)
    BY DEF OneRecordPerRun
  <2>2. owed[t] = IF Running(Now, t) /\ t \notin timedOut THEN 1 ELSE 0
    BY <2>1, TaskFacts DEF Flow, Recorded
  <2>3. t \in timedOut => Running(Now, t)
    BY <2>1, TaskFacts DEF Flow, TimeoutsSound
  <2>4. Cardinality({}) = 0 /\ Cardinality({t}) = 1
    BY FS_EmptySet, FS_Singleton
  <2>5. Cardinality({t} \cap timedOut) = IF t \in timedOut THEN 1 ELSE 0
    <3>1. CASE t \in timedOut
      <4>1. {t} \cap timedOut = {t}
        BY <3>1
      <4> QED BY <2>4, <3>1, <4>1
    <3>2. CASE t \notin timedOut
      <4>1. {t} \cap timedOut = {}
        BY <3>2
      <4> QED BY <2>4, <3>2, <4>1
    <3> QED BY <3>1, <3>2
  <2>6. Cardinality(RunsOf(t)) = IF Running(Now, t) THEN 1 ELSE 0
    <3>1. CASE ~Running(Now, t)
      <4>1. RunsOf(t) = {}
        BY <2>1, <3>1 DEF Running, RunsOf
      <4> QED BY <2>4, <3>1, <4>1
    <3>2. CASE Running(Now, t)
      <4>1. PICK i \in DOMAIN runs : runs[i].task.id = t
        BY <2>1, <3>2 DEF Running
      <4>2. RunsOf(t) = {i}
        BY <2>1, <4>1 DEF RunsOf, Flow, Shared, RunsSound
      <4>3. Cardinality({i}) = 1
        BY FS_Singleton
      <4> QED BY <3>2, <4>2, <4>3
    <3> QED BY <3>1, <3>2
  <2> QED BY <2>2, <2>3, <2>5, <2>6
<1> QED BY <1>1, EngineInvariant, FlowInvariant, PTL
====
