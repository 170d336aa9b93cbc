---------------------------- MODULE SessionLocks ----------------------------
(***************************************************************************)
(* SessionLockManager (src/core/scheduler/locks.ts): one mutex per lock     *)
(* key, a FIFO queue of waiting tasks behind each, and an index from task   *)
(* id to the key the task holds.  A key is a session id, or the placeholder *)
(* `pending:<task>' of a task that has no session yet.                      *)
(*                                                                         *)
(* The manager is a plain object called by the scheduler engine, so each    *)
(* method is an operator from the state of the manager to the next one:     *)
(* SchedulerEngine strings several calls together in one step of the event  *)
(* loop.  LocksSpec below is the manager on its own, under any sequence of  *)
(* calls.  A method that calls back (onTimeout, onDispatchNext) has a second *)
(* operator that says which task it calls back with.                        *)
(***************************************************************************)
EXTENDS Naturals, Sequences

CONSTANTS
    Tasks,      \* task ids
    Sessions,   \* lock keys
    Objects,    \* ScheduledTask objects: at least an id and whether it has a timeout
    None        \* undefined

ASSUME LocksAssumption ==
    /\ None \notin Tasks \cup Sessions
    /\ \A task \in Objects : task.id \in Tasks /\ task.timed \in BOOLEAN

VARIABLE locks

Policies == {"skip", "queue", "preempt"}

NoLocks == [holder |-> [s \in Sessions |-> None],   \* holders: the task id
            queue  |-> [s \in Sessions |-> <<>>],   \* queues: the task objects
            index  |-> [t \in Tasks |-> None],      \* byTaskId
            armed  |-> {}]                          \* keys whose timeoutHandle is pending

-----------------------------------------------------------------------------
(* Internals.                                                              *)

SetHolder(L, task, s) ==
    [holder |-> [L.holder EXCEPT ![s] = task.id],
     queue  |-> L.queue,
     index  |-> [L.index EXCEPT ![task.id] = s],
     armed  |-> IF task.timed THEN L.armed \cup {s} ELSE L.armed]

ClearHolder(L, s) ==
    IF L.holder[s] = None THEN L
    ELSE [holder |-> [L.holder EXCEPT ![s] = None],
          queue  |-> L.queue,
          index  |-> [L.index EXCEPT ![L.holder[s]] = None],
          armed  |-> L.armed \ {s}]

IsQueued(L, t, s) == \E i \in DOMAIN L.queue[s] : L.queue[s][i].id = t

Enqueue(L, task, s) ==
    IF IsQueued(L, task.id, s) THEN L
    ELSE [holder |-> L.holder,
          queue  |-> [L.queue EXCEPT ![s] = Append(@, task)],
          index  |-> L.index,
          armed  |-> L.armed]

-----------------------------------------------------------------------------
(* Methods.                                                                *)

\* The `kind' of the AcquireResult.
AcquireKind(L, task, s, policy) ==
    IF L.index[task.id] = s \/ L.holder[s] = None \/ policy = "preempt" THEN "acquired"
    ELSE IF policy = "skip" THEN "skipped" ELSE "queued"

\* The task whose lock this acquire takes away, for which onTimeout is called.
Evicted(L, task, s, policy) ==
    IF policy = "preempt" /\ L.index[task.id] # s THEN L.holder[s] ELSE None

Acquire(L, task, s, policy) ==
    CASE L.index[task.id] = s                         -> L
      [] L.index[task.id] # s /\ L.holder[s] = None   -> SetHolder(L, task, s)
      [] L.index[task.id] # s /\ L.holder[s] # None   ->
            CASE policy = "skip"    -> L
              [] policy = "queue"   -> Enqueue(L, task, s)
              [] policy = "preempt" -> SetHolder(ClearHolder(L, s), task, s)

\* The queued task object the lock is handed to, or None.
HandedTo(L, t) ==
    LET s == L.index[t]
    IN  IF s = None THEN None
        ELSE IF L.queue[s] = <<>> THEN None ELSE Head(L.queue[s])

\* Bug: the newest waiter goes first.
ReleaseNewest(L, t) ==
    LET s == L.index[t]
        q == L.queue[s]
    IN  IF s = None THEN L
        ELSE IF q = <<>> THEN ClearHolder(L, s)
        ELSE SetHolder([ClearHolder(L, s) EXCEPT !.queue[s] = SubSeq(q, 1, Len(q) - 1)],
                       q[Len(q)], s)

Dequeued(L, s) ==
    [holder |-> L.holder,
     queue  |-> [L.queue EXCEPT ![s] = Tail(@)],
     index  |-> L.index,
     armed  |-> L.armed]

Release(L, t) ==
    LET s == L.index[t]
    IN  IF s = None THEN L
        ELSE IF L.queue[s] = <<>> THEN ClearHolder(L, s)
        ELSE SetHolder(Dequeued(ClearHolder(L, s), s), Head(L.queue[s]), s)

\* Bug: the new key is not tested for a holder.
ReassignClobbers(L, old, new) ==
    IF old = new \/ L.holder[old] = None THEN L
    ELSE [holder |-> [L.holder EXCEPT ![new] = L.holder[old], ![old] = None],
          queue  |-> [L.queue EXCEPT ![new] = L.queue[old], ![old] = <<>>],
          index  |-> [L.index EXCEPT ![L.holder[old]] = new],
          armed  |-> (L.armed \ {old}) \cup (IF old \in L.armed THEN {new} ELSE {})]

Reassign(L, old, new) ==
    IF old = new \/ L.holder[old] = None \/ L.holder[new] # None THEN L
    ELSE [holder |-> [[L.holder EXCEPT ![old] = None] EXCEPT ![new] = L.holder[old]],
          queue  |-> IF L.queue[old] = <<>> THEN L.queue
                     ELSE [[L.queue EXCEPT ![new] = L.queue[old]] EXCEPT ![old] = <<>>],
          index  |-> [L.index EXCEPT ![L.holder[old]] = new],
          armed  |-> IF old \in L.armed THEN (L.armed \ {old}) \cup {new} ELSE L.armed]

\* The timeout of the holder of s goes off: onTimeout, and nothing else here.
TimeoutFired(L, s) ==
    [holder |-> L.holder, queue |-> L.queue, index |-> L.index, armed |-> L.armed \ {s}]

-----------------------------------------------------------------------------
(* The manager on its own: its methods in any order, with any arguments.   *)

LocksInit == locks = NoLocks

LocksAcquire(task, s, policy) == locks' = Acquire(locks, task, s, policy)

LocksRelease(t) == locks' = Release(locks, t)

LocksReassign(old, new) == locks' = Reassign(locks, old, new)

LocksTimeout(s) == s \in locks.armed /\ locks' = TimeoutFired(locks, s)

LocksDispose == locks' = NoLocks

LocksNext ==
    \/ \E task \in Objects, s \in Sessions, policy \in Policies : LocksAcquire(task, s, policy)
    \/ \E t \in Tasks : LocksRelease(t)
    \/ \E old, new \in Sessions : LocksReassign(old, new)
    \/ \E s \in Sessions : LocksTimeout(s)
    \/ LocksDispose

LocksSpec == LocksInit /\ [][LocksNext]_locks

-----------------------------------------------------------------------------
(* Properties.                                                             *)

Shape(objects) == [holder : [Sessions -> Tasks \cup {None}],
                   queue  : [Sessions -> Seq(objects)],
                   index  : [Tasks -> Sessions \cup {None}],
                   armed  : SUBSET Sessions]

\* The shape of the three maps and of the set of pending timeouts.
LocksTypeOK == locks \in Shape(Objects)

\* byTaskId never points a task at a lock another task holds, so release()
\* cannot free somebody else's lock, whatever was preempted or re-keyed.
IndexSound ==
    \A t \in Tasks : locks.index[t] # None => locks.holder[locks.index[t]] = t

\* Nobody waits behind a free lock: no release, preemption or re-keying leaves
\* a queue whose lock no one will ever release.
QueueHasHolder ==
    \A s \in Sessions : locks.queue[s] # <<>> => locks.holder[s] # None

\* locks.ts:20: the same task id appears at most once in a queue.
QueueDistinct ==
    \A s \in Sessions : \A i, j \in DOMAIN locks.queue[s] :
        locks.queue[s][i].id = locks.queue[s][j].id => i = j

\* A pending timeout belongs to a lock that is held: clearing a holder also
\* clears its timeout, and re-keying takes it along.
TimeoutHasHolder ==
    \A s \in locks.armed : locks.holder[s] # None

\* Whatever the order of acquisitions, releases, preemptions, re-keyings and
\* timeouts, the four maps of locks.ts stay coherent, as above.
LocksSound == IndexSound /\ QueueHasHolder /\ QueueDistinct /\ TimeoutHasHolder

\* What may happen to the queue of key s in one call.
KeepsOrder(s) ==
    LET q == locks.queue[s]
    IN  \/ locks'.queue[s] = q
        \/ \E task \in Objects : locks'.queue[s] = Append(q, task)
        \/ q # <<>> /\ locks'.queue[s] = Tail(q) /\ locks'.holder[s] = Head(q).id
        \/ \E r \in Sessions : locks'.queue[s] = <<>> /\ locks'.queue[r] = q
                               /\ locks'.holder[r] = locks.holder[s]
        \/ \E r \in Sessions : q = <<>> /\ locks'.queue[s] = locks.queue[r]
                               /\ locks'.queue[r] = <<>>
        \/ locks' = NoLocks

\* A waiting task leaves a queue only from its head, only by becoming the
\* holder of that key; re-keying moves a queue whole, and only with its lock.
ServedInOrder == [][\A s \in Sessions : KeepsOrder(s)]_locks
=============================================================================
