----------------------- MODULE SchedulerEngineProofs -----------------------
(***************************************************************************)
(* The lock manager stays coherent under any sequence of calls, and so does *)
(* the scheduler engine, which makes several calls in a step, for every     *)
(* number of tasks, sessions and commands.                                  *)
(*                                                                         *)
(* The invariants of SessionLocks are restated for a manager L and a set of *)
(* task objects, so that the lemmas on its methods serve both.  A step of   *)
(* the engine is a chain of operators on engine records; each operator maps *)
(* EngineStates to EngineStates.                                            *)
(***************************************************************************)
EXTENDS SchedulerEngine, SequenceTheorems, FiniteSetTheorems, TLAPS

IsTaskSet(objects) == \A task \in objects : task.id \in Tasks /\ task.timed \in BOOLEAN

Distinct(q) == \A i, j \in DOMAIN q : q[i].id = q[j].id => i = j

Base(L, objects) ==
    /\ L \in Shape(objects)
    /\ \A t \in Tasks : L.index[t] # None => L.holder[L.index[t]] = t
    /\ \A s \in Sessions : Distinct(L.queue[s])
    /\ \A s \in L.armed : L.holder[s] # None

Coherent(L, objects) ==
    /\ Base(L, objects)
    /\ \A s \in Sessions : L.queue[s] # <<>> => L.holder[s] # None

\* Between the clearing of the holder of key and the setting of the next one.
Vacant(L, objects, key) ==
    /\ Base(L, objects)
    /\ L.holder[key] = None
    /\ \A s \in Sessions \ {key} : L.queue[s] # <<>> => L.holder[s] # None

-----------------------------------------------------------------------------
(* The internals.                                                          *)

\* A manager without locks is coherent.
LEMMA NoLocksCoherent ==
    ASSUME NEW objects PROVE Coherent(NoLocks, objects)
BY LocksAssumption DEF Coherent, Base, NoLocks, Shape, Distinct

\* _clearHolder leaves the key vacant, whoever held it.
LEMMA ClearHolderVacant ==
    ASSUME NEW objects, IsTaskSet(objects), NEW L, Coherent(L, objects),
           NEW s \in Sessions
    PROVE  Vacant(ClearHolder(L, s), objects, s)
<1>1. CASE L.holder[s] = None
  BY <1>1 DEF ClearHolder, Vacant, Coherent
<1>2. CASE L.holder[s] # None
  <2> DEFINE C == [holder |-> [L.holder EXCEPT ![s] = None],
                   queue  |-> L.queue,
                   index  |-> [L.index EXCEPT ![L.holder[s]] = None],
                   armed  |-> L.armed \ {s}]
  <2>1. ClearHolder(L, s) = C
    BY <1>2 DEF ClearHolder
  <2>2. L.holder \in [Sessions -> Tasks \cup {None}] /\ L.index \in [Tasks -> Sessions \cup {None}]
        /\ L.queue \in [Sessions -> Seq(objects)] /\ L.armed \in SUBSET Sessions
    BY DEF Coherent, Base, Shape
  <2>3. C \in Shape(objects)
    BY <2>2 DEF Shape
  <2>4. ASSUME NEW t \in Tasks, C.index[t] # None PROVE C.holder[C.index[t]] = t
    BY <2>2, <2>4, <1>2, LocksAssumption DEF Coherent, Base
  <2>5. \A r \in Sessions : Distinct(C.queue[r])
    BY DEF Coherent, Base
  <2>6. \A r \in C.armed : C.holder[r] # None
    BY <2>2 DEF Coherent, Base
  <2>7. C.holder[s] = None
    BY <2>2
  <2>8. \A r \in Sessions \ {s} : C.queue[r] # <<>> => C.holder[r] # None
    BY <2>2 DEF Coherent
  <2> HIDE DEF C
  <2> QED BY <2>1, <2>3, <2>4, <2>5, <2>6, <2>7, <2>8 DEF Vacant, Base
<1> QED BY <1>1, <1>2

\* _setHolder on a vacant key makes the manager coherent again.
LEMMA SetHolderCoherent ==
    ASSUME NEW objects, IsTaskSet(objects), NEW L, NEW s \in Sessions,
           Vacant(L, objects, s), NEW task \in objects
    PROVE  Coherent(SetHolder(L, task, s), objects)
<1> DEFINE C == SetHolder(L, task, s)
<1>1. L.holder \in [Sessions -> Tasks \cup {None}] /\ L.index \in [Tasks -> Sessions \cup {None}]
      /\ L.queue \in [Sessions -> Seq(objects)] /\ L.armed \in SUBSET Sessions
  BY DEF Vacant, Base, Shape
<1>2. task.id \in Tasks /\ task.timed \in BOOLEAN
  BY DEF IsTaskSet
<1>3. /\ C.holder = [L.holder EXCEPT ![s] = task.id] /\ C.queue = L.queue
      /\ C.index = [L.index EXCEPT ![task.id] = s]
      /\ C.armed = (IF task.timed THEN L.armed \cup {s} ELSE L.armed)
  BY DEF SetHolder
<1>4. C \in Shape(objects)
  BY <1>1, <1>2 DEF Shape, SetHolder
<1> HIDE DEF C
<1>5. ASSUME NEW t \in Tasks, C.index[t] # None PROVE C.holder[C.index[t]] = t
  <2>1. CASE t = task.id
    BY <2>1, <1>1, <1>2, <1>3
  <2>2. CASE t # task.id
    <3>1. C.index[t] = L.index[t] /\ L.index[t] \in Sessions
      BY <2>2, <1>1, <1>2, <1>3, <1>5
    <3>2. L.holder[L.index[t]] = t /\ L.holder[s] = None
      BY <3>1, <1>5 DEF Vacant, Base
    <3> QED BY <3>1, <3>2, <1>1, <1>3, LocksAssumption
  <2> QED BY <2>1, <2>2
<1>6. \A r \in Sessions : Distinct(C.queue[r])
  BY <1>3 DEF Vacant, Base
<1>7. \A r \in C.armed : C.holder[r] # None
  BY <1>1, <1>2, <1>3, LocksAssumption DEF Vacant, Base
<1>8. \A r \in Sessions : C.queue[r] # <<>> => C.holder[r] # None
  BY <1>1, <1>2, <1>3, LocksAssumption DEF Vacant
<1> QED BY <1>4, <1>5, <1>6, <1>7, <1>8 DEF Coherent, Base, C

\* Taking the head of the queue of a vacant key leaves it vacant.
LEMMA DequeuedVacant ==
    ASSUME NEW objects, IsTaskSet(objects), NEW L, NEW s \in Sessions,
           Vacant(L, objects, s), L.queue[s] # <<>>
    PROVE  Vacant(Dequeued(L, s), objects, s) /\ Head(L.queue[s]) \in objects
<1> DEFINE C == Dequeued(L, s)
           q == L.queue[s]
<1>1. L.queue \in [Sessions -> Seq(objects)] /\ q \in Seq(objects) /\ q # <<>>
  BY DEF Vacant, Base, Shape
<1>2. Tail(q) \in Seq(objects) /\ Head(q) \in objects
  BY <1>1, HeadTailProperties
<1>3. C.holder = L.holder /\ C.index = L.index /\ C.armed = L.armed
      /\ C.queue = [L.queue EXCEPT ![s] = Tail(q)]
  BY DEF Dequeued
<1>4. C \in Shape(objects)
  BY <1>1, <1>2 DEF Shape, Vacant, Base, Dequeued
<1>5. Distinct(Tail(q))
  <2>1. Len(q) \in Nat \ {0} /\ DOMAIN q = 1 .. Len(q)
    BY <1>1, LenProperties, EmptySeq
  <2>2. Len(Tail(q)) = Len(q) - 1 /\ \A i \in 1 .. Len(q) - 1 : Tail(q)[i] = q[i + 1]
    BY <1>1, HeadTailProperties
  <2>3. DOMAIN Tail(q) = 1 .. Len(q) - 1
    BY <1>2, <2>2, LenProperties
  <2>4. Distinct(q)
    BY DEF Vacant, Base
  <2> SUFFICES ASSUME NEW i \in 1 .. Len(q) - 1, NEW j \in 1 .. Len(q) - 1,
                      Tail(q)[i].id = Tail(q)[j].id
               PROVE  i = j
    BY <2>3 DEF Distinct
  <2>5. i + 1 \in DOMAIN q /\ j + 1 \in DOMAIN q /\ q[i + 1].id = q[j + 1].id
    BY <2>1, <2>2
  <2>6. i + 1 = j + 1
    BY <2>4, <2>5 DEF Distinct
  <2> QED BY <2>6, <2>1
<1> HIDE DEF C
<1>6. \A r \in Sessions : Distinct(C.queue[r])
  BY <1>1, <1>3, <1>5 DEF Vacant, Base
<1>7. \A r \in Sessions \ {s} : C.queue[r] # <<>> => C.holder[r] # None
  BY <1>1, <1>3 DEF Vacant
<1>8. Vacant(C, objects, s)
  BY <1>3, <1>4, <1>6, <1>7 DEF Vacant, Base
<1> QED BY <1>2, <1>8 DEF C

\* Queueing behind a held lock.
LEMMA EnqueueCoherent ==
    ASSUME NEW objects, IsTaskSet(objects), NEW L, NEW s \in Sessions,
           Coherent(L, objects), L.holder[s] # None, NEW task \in objects
    PROVE  Coherent(Enqueue(L, task, s), objects)
<1>1. CASE IsQueued(L, task.id, s)
  BY <1>1 DEF Enqueue
<1>2. CASE ~IsQueued(L, task.id, s)
  <2> DEFINE C == [holder |-> L.holder, queue |-> [L.queue EXCEPT ![s] = Append(L.queue[s], task)],
                   index |-> L.index, armed |-> L.armed]
             q == L.queue[s]
  <2>1. Enqueue(L, task, s) = C
    BY <1>2 DEF Enqueue
  <2>2. L.queue \in [Sessions -> Seq(objects)] /\ q \in Seq(objects)
    BY DEF Coherent, Base, Shape
  <2>3. Append(q, task) \in Seq(objects) /\ Len(q) \in Nat /\ DOMAIN q = 1 .. Len(q)
        /\ Len(Append(q, task)) = Len(q) + 1 /\ Append(q, task)[Len(q) + 1] = task
        /\ \A i \in 1 .. Len(q) : Append(q, task)[i] = q[i]
    BY <2>2, AppendProperties, LenProperties
  <2>4. DOMAIN Append(q, task) = 1 .. Len(q) + 1
    BY <2>3, LenProperties
  <2>5. Distinct(Append(q, task))
    <3>1. Distinct(q)
      BY DEF Coherent, Base
    <3>2. \A i \in 1 .. Len(q) : q[i].id # task.id
      BY <1>2, <2>3 DEF IsQueued
    <3> SUFFICES ASSUME NEW i \in 1 .. Len(q) + 1, NEW j \in 1 .. Len(q) + 1,
                        Append(q, task)[i].id = Append(q, task)[j].id
                 PROVE  i = j
      BY <2>4 DEF Distinct
    <3>3. CASE i = Len(q) + 1 /\ j # Len(q) + 1
      BY <3>2, <3>3, <2>3
    <3>4. CASE i # Len(q) + 1 /\ j = Len(q) + 1
      BY <3>2, <3>4, <2>3
    <3>5. CASE i # Len(q) + 1 /\ j # Len(q) + 1
      <4>1. i \in DOMAIN q /\ j \in DOMAIN q /\ q[i].id = q[j].id
        BY <3>5, <2>3
      <4> QED BY <4>1, <3>1 DEF Distinct
    <3> QED BY <3>3, <3>4, <3>5
  <2>6. C \in Shape(objects)
    BY <2>2, <2>3 DEF Shape, Coherent, Base
  <2>7. \A r \in Sessions : Distinct(C.queue[r])
    BY <2>2, <2>5 DEF Coherent, Base
  <2>8. \A r \in Sessions : C.queue[r] # <<>> => C.holder[r] # None
    BY <2>2 DEF Coherent
  <2>9. C.holder = L.holder /\ C.index = L.index /\ C.armed = L.armed
    OBVIOUS
  <2> HIDE DEF C
  <2> QED BY <2>1, <2>6, <2>7, <2>8, <2>9 DEF Coherent, Base
<1> QED BY <1>1, <1>2

-----------------------------------------------------------------------------
(* The methods.                                                            *)

\* acquire(), under each policy.
LEMMA AcquireCoherent ==
    ASSUME NEW objects, IsTaskSet(objects), NEW L, NEW s \in Sessions,
           Coherent(L, objects), NEW task \in objects, NEW policy \in Policies
    PROVE  Coherent(Acquire(L, task, s, policy), objects)
<1>1. CASE L.index[task.id] = s
  BY <1>1 DEF Acquire
<1>2. CASE L.index[task.id] # s /\ L.holder[s] = None
  <2>1. Vacant(L, objects, s)
    BY <1>2 DEF Vacant, Coherent
  <2> QED BY <1>2, <2>1, SetHolderCoherent DEF Acquire
<1>3. CASE L.index[task.id] # s /\ L.holder[s] # None
  <2>1. CASE policy = "skip"
    BY <1>3, <2>1 DEF Acquire
  <2>2. CASE policy = "queue"
    <3>1. Acquire(L, task, s, policy) = Enqueue(L, task, s)
      BY <1>3, <2>2 DEF Acquire
    <3> QED BY <1>3, <3>1, EnqueueCoherent
  <2>3. CASE policy = "preempt"
    <3>1. Acquire(L, task, s, policy) = SetHolder(ClearHolder(L, s), task, s)
      BY <1>3, <2>3 DEF Acquire
    <3> QED BY <3>1, ClearHolderVacant, SetHolderCoherent
  <2> QED BY <2>1, <2>2, <2>3 DEF Policies
<1> QED BY <1>1, <1>2, <1>3

\* release(), with or without a task to hand the lock to.
LEMMA ReleaseCoherent ==
    ASSUME NEW objects, IsTaskSet(objects), NEW L, Coherent(L, objects), NEW t \in Tasks
    PROVE  /\ Coherent(Release(L, t), objects)
           /\ HandedTo(L, t) # None => HandedTo(L, t) \in objects
<1> DEFINE s == L.index[t]
<1>1. CASE s = None
  BY <1>1 DEF Release, HandedTo
<1>2. CASE s # None
  <2>1. s \in Sessions
    BY <1>2 DEF Coherent, Base, Shape
  <2> DEFINE C == ClearHolder(L, s)
  <2>2. Vacant(C, objects, s)
    BY <2>1, ClearHolderVacant
  <2>3. C.queue = L.queue
    BY DEF ClearHolder
  <2> HIDE DEF C
  <2>4. CASE L.queue[s] = <<>>
    <3>1. Coherent(C, objects)
      BY <2>2, <2>3, <2>4 DEF Vacant, Coherent
    <3>2. Release(L, t) = C /\ HandedTo(L, t) = None
      BY <1>2, <2>4 DEF Release, C, HandedTo
    <3> QED BY <3>1, <3>2
  <2>5. CASE L.queue[s] # <<>>
    <3>1. Vacant(Dequeued(C, s), objects, s) /\ Head(C.queue[s]) \in objects
      BY <2>1, <2>2, <2>3, <2>5, DequeuedVacant
    <3>2. Coherent(SetHolder(Dequeued(C, s), Head(L.queue[s]), s), objects)
      BY <2>1, <2>3, <3>1, SetHolderCoherent
    <3>3. /\ Release(L, t) = SetHolder(Dequeued(C, s), Head(L.queue[s]), s)
          /\ HandedTo(L, t) = Head(L.queue[s])
      BY <1>2, <2>5 DEF Release, HandedTo, C
    <3> QED BY <2>3, <3>1, <3>2, <3>3
  <2> QED BY <2>4, <2>5
<1> QED BY <1>1, <1>2

\* reassign() moves a lock, its queue and its timeout to a free key.
LEMMA ReassignCoherent ==
    ASSUME NEW objects, IsTaskSet(objects), NEW L, Coherent(L, objects),
           NEW old \in Sessions, NEW new \in Sessions
    PROVE  Coherent(Reassign(L, old, new), objects)
<1> DEFINE C == Reassign(L, old, new)
           h == L.holder[old]
<1>1. CASE old = new \/ h = None \/ L.holder[new] # None
  BY <1>1 DEF Reassign
<1>2. CASE old # new /\ h # None /\ L.holder[new] = None
  <2>1. L.holder \in [Sessions -> Tasks \cup {None}] /\ L.index \in [Tasks -> Sessions \cup {None}]
        /\ L.queue \in [Sessions -> Seq(objects)] /\ L.armed \in SUBSET Sessions
    BY DEF Coherent, Base, Shape
  <2>2. h \in Tasks
    BY <1>2, <2>1
  <2>3. /\ C.holder = [[L.holder EXCEPT ![old] = None] EXCEPT ![new] = h]
        /\ C.queue = (IF L.queue[old] = <<>> THEN L.queue
                      ELSE [[L.queue EXCEPT ![new] = L.queue[old]] EXCEPT ![old] = <<>>])
        /\ C.index = [L.index EXCEPT ![h] = new]
        /\ C.armed = (IF old \in L.armed THEN (L.armed \ {old}) \cup {new} ELSE L.armed)
    BY <1>2 DEF Reassign
  <2>4. C = [holder |-> C.holder, queue |-> C.queue, index |-> C.index, armed |-> C.armed]
    BY <1>2 DEF Reassign
  <2> HIDE DEF C
  <2>5. C.holder[new] = h /\ C.holder[old] = None
        /\ \A r \in Sessions \ {old, new} : C.holder[r] = L.holder[r]
    BY <1>2, <2>1, <2>3
  <2>6. L.queue[new] = <<>>
    BY <1>2 DEF Coherent
  <2>7. C.queue[new] = L.queue[old] /\ C.queue[old] = <<>>
        /\ \A r \in Sessions \ {old, new} : C.queue[r] = L.queue[r]
    BY <1>2, <2>1, <2>3, <2>6
  <2>8. C.holder \in [Sessions -> Tasks \cup {None}] /\ C.index \in [Tasks -> Sessions \cup {None}]
        /\ C.armed \in SUBSET Sessions
    <3> DEFINE H == [L.holder EXCEPT ![old] = None]
    <3>1. H \in [Sessions -> Tasks \cup {None}] /\ C.holder = [H EXCEPT ![new] = h]
      BY <2>1, <2>3
    <3> HIDE DEF H
    <3>2. C.holder \in [Sessions -> Tasks \cup {None}]
      BY <2>2, <3>1
    <3>3. C.index \in [Tasks -> Sessions \cup {None}]
      BY <2>1, <2>2, <2>3
    <3>4. C.armed \in SUBSET Sessions
      BY <2>1, <2>3
    <3> QED BY <3>2, <3>3, <3>4
  <2>9. C.queue \in [Sessions -> Seq(objects)]
    <3> DEFINE Q == [L.queue EXCEPT ![new] = L.queue[old]]
    <3>1. Q \in [Sessions -> Seq(objects)]
      BY <2>1
    <3>2. C.queue = L.queue \/ C.queue = [Q EXCEPT ![old] = <<>>]
      BY <2>3
    <3>3. <<>> \in Seq(objects)
      OBVIOUS
    <3> HIDE DEF Q
    <3> QED BY <2>1, <3>1, <3>2, <3>3
  <2>10. C \in Shape(objects)
    BY <2>4, <2>8, <2>9 DEF Shape
  <2>11. ASSUME NEW t \in Tasks, C.index[t] # None PROVE C.holder[C.index[t]] = t
    <3>1. CASE t = h
      BY <3>1, <2>1, <2>3, <2>5
    <3>2. CASE t # h
      <4>1. C.index[t] = L.index[t] /\ L.index[t] \in Sessions
        BY <3>2, <2>1, <2>3, <2>11
      <4>2. L.holder[L.index[t]] = t
        BY <4>1, <2>11 DEF Coherent, Base
      <4>3. L.index[t] # old /\ L.index[t] # new
        BY <4>2, <3>2, <1>2, LocksAssumption
      <4> QED BY <4>1, <4>2, <4>3, <2>5
    <3> QED BY <3>1, <3>2
  <2>12. \A r \in Sessions : Distinct(C.queue[r])
    <3>1. Distinct(L.queue[old])
      BY DEF Coherent, Base
    <3>2. Distinct(<<>>)
      BY DEF Distinct
    <3>3. \A r \in Sessions : r = old \/ r = new \/ r \in Sessions \ {old, new}
      OBVIOUS
    <3> QED BY <3>1, <3>2, <3>3, <2>7 DEF Coherent, Base
  <2>13. \A r \in C.armed : C.holder[r] # None
    BY <2>1, <2>2, <2>3, <2>5, <1>2, LocksAssumption DEF Coherent, Base
  <2>14. \A r \in Sessions : C.queue[r] # <<>> => C.holder[r] # None
    BY <2>5, <2>7, <1>2 DEF Coherent
  <2> QED BY <2>10, <2>11, <2>12, <2>13, <2>14 DEF Coherent, Base, C
<1> QED BY <1>1, <1>2

\* The timeout of a held lock going off.
LEMMA TimeoutFiredCoherent ==
    ASSUME NEW objects, NEW L, Coherent(L, objects), NEW s
    PROVE  Coherent(TimeoutFired(L, s), objects)
BY DEF TimeoutFired, Coherent, Base, Shape

-----------------------------------------------------------------------------
(* The manager on its own.                                                 *)

\* Every call keeps the manager coherent.
THEOREM LocksCoherent == LocksSpec => []Coherent(locks, Objects)
<1> USE LocksAssumption DEF IsTaskSet
<1>1. LocksInit => Coherent(locks, Objects)
  BY NoLocksCoherent DEF LocksInit
<1>2. Coherent(locks, Objects) /\ [LocksNext]_locks => Coherent(locks, Objects)'
  <2> SUFFICES ASSUME Coherent(locks, Objects), [LocksNext]_locks
               PROVE  Coherent(locks', Objects)
    BY DEF Coherent, Base, Shape, Distinct
  <2>1. ASSUME NEW task \in Objects, NEW s \in Sessions, NEW policy \in Policies,
               LocksAcquire(task, s, policy)
        PROVE  Coherent(locks', Objects)
    BY <2>1, AcquireCoherent DEF LocksAcquire
  <2>2. ASSUME NEW t \in Tasks, LocksRelease(t) PROVE Coherent(locks', Objects)
    BY <2>2, ReleaseCoherent DEF LocksRelease
  <2>3. ASSUME NEW old \in Sessions, NEW new \in Sessions, LocksReassign(old, new)
        PROVE  Coherent(locks', Objects)
    BY <2>3, ReassignCoherent DEF LocksReassign
  <2>4. ASSUME NEW s \in Sessions, LocksTimeout(s) PROVE Coherent(locks', Objects)
    BY <2>4, TimeoutFiredCoherent DEF LocksTimeout
  <2>5. CASE LocksDispose
    BY <2>5, NoLocksCoherent DEF LocksDispose
  <2>6. CASE UNCHANGED locks
    BY <2>6
  <2> QED BY <2>1, <2>2, <2>3, <2>4, <2>5, <2>6 DEF LocksNext
<1> QED BY <1>1, <1>2, PTL DEF LocksSpec

\* byTaskId never names a lock that another task holds.
THEOREM LocksIndexSound == LocksSpec => []IndexSound
<1>1. Coherent(locks, Objects) => IndexSound
  BY DEF Coherent, Base, IndexSound
<1> QED BY <1>1, LocksCoherent, PTL

\* Nobody ever waits behind a free lock.
THEOREM LocksQueueHasHolder == LocksSpec => []QueueHasHolder
<1>1. Coherent(locks, Objects) => QueueHasHolder
  BY DEF Coherent, QueueHasHolder
<1> QED BY <1>1, LocksCoherent, PTL

\* A task id occurs at most once in a queue.
THEOREM LocksQueueDistinct == LocksSpec => []QueueDistinct
<1>1. Coherent(locks, Objects) => QueueDistinct
  BY DEF Coherent, Base, Distinct, QueueDistinct
<1> QED BY <1>1, LocksCoherent, PTL

\* A pending timeout always belongs to a held lock.
THEOREM LocksTimeoutHasHolder == LocksSpec => []TimeoutHasHolder
<1>1. Coherent(locks, Objects) => TimeoutHasHolder
  BY DEF Coherent, Base, TimeoutHasHolder
<1> QED BY <1>1, LocksCoherent, PTL

\* The lock manager is coherent after any sequence of calls, for any tasks and
\* keys: byTaskId names no lock another task holds, no queue waits behind a free
\* lock or holds a task twice, and no timeout outlives its lock.
THEOREM LocksAlwaysSound == LocksSpec => []LocksSound
<1>1. IndexSound /\ QueueHasHolder /\ QueueDistinct /\ TimeoutHasHolder => LocksSound
  BY DEF LocksSound
<1> QED BY <1>1, LocksIndexSound, LocksQueueHasHolder, LocksQueueDistinct, LocksTimeoutHasHolder, PTL

-----------------------------------------------------------------------------
(* The order of service.                                                   *)

LEMMA AcquireKeepsOrder ==
    ASSUME locks \in Shape(Objects), NEW task \in Objects, NEW k \in Sessions, NEW policy \in Policies,
           LocksAcquire(task, k, policy), NEW s \in Sessions
    PROVE  KeepsOrder(s)
<1>1. locks.queue \in [Sessions -> Seq(Objects)]
  BY DEF Shape
<1>2. locks' = Acquire(locks, task, k, policy)
  BY DEF LocksAcquire
<1>3. \/ locks'.queue = locks.queue
      \/ locks'.queue = [locks.queue EXCEPT ![k] = Append(@, task)]
  BY <1>2 DEF Acquire, Enqueue, SetHolder, ClearHolder, Policies
<1> QED
  BY <1>1, <1>3 DEF KeepsOrder

LEMMA ReleaseKeepsOrder ==
    ASSUME locks \in Shape(Objects), NEW t \in Tasks, LocksRelease(t), NEW s \in Sessions
    PROVE  KeepsOrder(s)
<1> DEFINE k == locks.index[t]
           q == locks.queue[k]
<1>1. /\ locks.queue \in [Sessions -> Seq(Objects)]
      /\ locks.holder \in [Sessions -> Tasks \cup {None}]
      /\ k \in Sessions \cup {None}
  BY DEF Shape
<1>2. locks' = Release(locks, t)
  BY DEF LocksRelease
<1>3. CASE k = None \/ q = <<>>
  <2>1. locks'.queue = locks.queue
    BY <1>2, <1>3 DEF Release, ClearHolder
  <2> QED BY <2>1 DEF KeepsOrder
<1>4. CASE k # None /\ q # <<>>
  <2> DEFINE C == ClearHolder(locks, k)
  <2>1. k \in Sessions /\ C.queue = locks.queue /\ C.holder \in [Sessions -> Tasks \cup {None}]
    BY <1>1, <1>4 DEF ClearHolder
  <2>2. /\ locks'.queue = [C.queue EXCEPT ![k] = Tail(@)]
        /\ locks'.holder = [C.holder EXCEPT ![k] = Head(q).id]
    BY <1>2, <1>4 DEF Release, SetHolder, Dequeued
  <2> HIDE DEF C
  <2>3. CASE s = k
    <3>1. locks'.queue[s] = Tail(q) /\ locks'.holder[s] = Head(q).id
      BY <1>1, <2>1, <2>2, <2>3
    <3> QED BY <1>4, <2>3, <3>1 DEF KeepsOrder
  <2>4. CASE s # k
    <3>1. locks'.queue[s] = locks.queue[s]
      BY <1>1, <2>1, <2>2, <2>4
    <3> QED BY <3>1 DEF KeepsOrder
  <2> QED BY <2>3, <2>4
<1> QED BY <1>3, <1>4

LEMMA ReassignKeepsOrder ==
    ASSUME Coherent(locks, Objects), NEW old \in Sessions, NEW new \in Sessions,
           LocksReassign(old, new), NEW s \in Sessions
    PROVE  KeepsOrder(s)
<1>1. /\ locks.queue \in [Sessions -> Seq(Objects)]
      /\ locks.holder \in [Sessions -> Tasks \cup {None}]
  BY DEF Coherent, Base, Shape
<1>2. locks' = Reassign(locks, old, new)
  BY DEF LocksReassign
<1>3. CASE old = new \/ locks.holder[old] = None \/ locks.holder[new] # None
  BY <1>2, <1>3 DEF Reassign, KeepsOrder
<1>4. CASE old # new /\ locks.holder[old] # None /\ locks.holder[new] = None
  <2>1. locks.queue[new] = <<>>
    BY <1>4 DEF Coherent
  <2>2. /\ locks'.holder = [[locks.holder EXCEPT ![old] = None] EXCEPT ![new] = locks.holder[old]]
        /\ locks'.queue = IF locks.queue[old] = <<>> THEN locks.queue
                          ELSE [[locks.queue EXCEPT ![new] = locks.queue[old]] EXCEPT ![old] = <<>>]
    BY <1>2, <1>4 DEF Reassign
  <2>3. /\ locks'.queue[new] = locks.queue[old] /\ locks'.queue[old] = <<>>
        /\ \A r \in Sessions \ {old, new} : locks'.queue[r] = locks.queue[r]
    BY <1>1, <1>4, <2>1, <2>2
  <2>4. locks'.holder[new] = locks.holder[old]
    BY <1>1, <2>2
  <2>5. CASE s = old
    BY <2>3, <2>4, <2>5 DEF KeepsOrder
  <2>6. CASE s = new
    BY <2>1, <2>3, <2>6 DEF KeepsOrder
  <2>7. CASE s \notin {old, new}
    BY <2>3, <2>7 DEF KeepsOrder
  <2> QED BY <2>5, <2>6, <2>7
<1> QED BY <1>3, <1>4

\* A waiting task leaves a queue only from its head and only by becoming the
\* holder; re-keying moves a queue whole, to a key nobody waits at, and with its
\* lock: acquire, release and reassign of locks.ts serve in order.
THEOREM LocksServedInOrder == LocksSpec => ServedInOrder
<1>1. Coherent(locks, Objects) /\ [LocksNext]_locks => [\A s \in Sessions : KeepsOrder(s)]_locks
  <2> SUFFICES ASSUME Coherent(locks, Objects), LocksNext, NEW s \in Sessions
               PROVE  KeepsOrder(s)
    OBVIOUS
  <2>0. locks \in Shape(Objects)
    BY DEF Coherent, Base
  <2>1. CASE \E task \in Objects, k \in Sessions, policy \in Policies : LocksAcquire(task, k, policy)
    BY <2>0, <2>1, AcquireKeepsOrder
  <2>2. CASE \E t \in Tasks : LocksRelease(t)
    BY <2>0, <2>2, ReleaseKeepsOrder
  <2>3. CASE \E old, new \in Sessions : LocksReassign(old, new)
    BY <2>3, ReassignKeepsOrder
  <2>4. CASE \E k \in Sessions : LocksTimeout(k)
    BY <2>4 DEF LocksTimeout, TimeoutFired, KeepsOrder
  <2>5. CASE LocksDispose
    BY <2>5 DEF LocksDispose, KeepsOrder
  <2> QED BY <2>1, <2>2, <2>3, <2>4, <2>5 DEF LocksNext
<1> QED BY <1>1, LocksCoherent, PTL DEF LocksSpec, ServedInOrder

-----------------------------------------------------------------------------
(* The engine.                                                             *)

Managers == {L \in Shape(Rec) : Coherent(L, Rec)}

EngineStates ==
    [tasks : [Tasks -> Rec \cup {None}],
     tracked : [Tasks -> Seq(Rec)],
     loose : [Tasks -> Seq(Rec)],
     catchup : [Tasks -> Nat],
     runs : Seq(RunRec),
     timedOut : SUBSET Tasks,
     owed : [Tasks -> (-1) .. MaxOwed],
     locks : Managers]

\* The inductive invariant.
EngineInv == EngineTypeOK /\ Coherent(locks, Rec)

LEMMA RecIsTaskSet == IsTaskSet(Rec)
BY DEF IsTaskSet, Rec

-----------------------------------------------------------------------------
(* One field at a time.                                                    *)

LEMMA SetTasks ==
    ASSUME NEW E \in EngineStates, NEW v \in [Tasks -> Rec \cup {None}]
    PROVE  LET x == [E EXCEPT !.tasks = v]
           IN  /\ x \in EngineStates /\ x.tasks = v
               /\ x.tracked = E.tracked /\ x.loose = E.loose /\ x.catchup = E.catchup /\ x.runs = E.runs
               /\ x.timedOut = E.timedOut /\ x.owed = E.owed /\ x.locks = E.locks
BY DEF EngineStates

LEMMA SetTracked ==
    ASSUME NEW E \in EngineStates, NEW v \in [Tasks -> Seq(Rec)]
    PROVE  LET x == [E EXCEPT !.tracked = v]
           IN  /\ x \in EngineStates /\ x.tracked = v
               /\ x.tasks = E.tasks /\ x.loose = E.loose /\ x.catchup = E.catchup /\ x.runs = E.runs
               /\ x.timedOut = E.timedOut /\ x.owed = E.owed /\ x.locks = E.locks
BY DEF EngineStates

LEMMA SetLoose ==
    ASSUME NEW E \in EngineStates, NEW v \in [Tasks -> Seq(Rec)]
    PROVE  LET x == [E EXCEPT !.loose = v]
           IN  /\ x \in EngineStates /\ x.loose = v
               /\ x.tasks = E.tasks /\ x.tracked = E.tracked /\ x.catchup = E.catchup /\ x.runs = E.runs
               /\ x.timedOut = E.timedOut /\ x.owed = E.owed /\ x.locks = E.locks
BY DEF EngineStates

LEMMA SetCatchup ==
    ASSUME NEW E \in EngineStates, NEW v \in [Tasks -> Nat]
    PROVE  LET x == [E EXCEPT !.catchup = v]
           IN  /\ x \in EngineStates /\ x.catchup = v
               /\ x.tasks = E.tasks /\ x.tracked = E.tracked /\ x.loose = E.loose /\ x.runs = E.runs
               /\ x.timedOut = E.timedOut /\ x.owed = E.owed /\ x.locks = E.locks
BY DEF EngineStates

LEMMA SetRuns ==
    ASSUME NEW E \in EngineStates, NEW v \in Seq(RunRec)
    PROVE  LET x == [E EXCEPT !.runs = v]
           IN  /\ x \in EngineStates /\ x.runs = v
               /\ x.tasks = E.tasks /\ x.tracked = E.tracked /\ x.loose = E.loose /\ x.catchup = E.catchup
               /\ x.timedOut = E.timedOut /\ x.owed = E.owed /\ x.locks = E.locks
BY DEF EngineStates

LEMMA SetTimedOut ==
    ASSUME NEW E \in EngineStates, NEW v \in SUBSET Tasks
    PROVE  LET x == [E EXCEPT !.timedOut = v]
           IN  /\ x \in EngineStates /\ x.timedOut = v
               /\ x.tasks = E.tasks /\ x.tracked = E.tracked /\ x.loose = E.loose /\ x.catchup = E.catchup
               /\ x.runs = E.runs /\ x.owed = E.owed /\ x.locks = E.locks
BY DEF EngineStates

LEMMA SetOwed ==
    ASSUME NEW E \in EngineStates, NEW v \in [Tasks -> (-1) .. MaxOwed]
    PROVE  LET x == [E EXCEPT !.owed = v]
           IN  /\ x \in EngineStates /\ x.owed = v
               /\ x.tasks = E.tasks /\ x.tracked = E.tracked /\ x.loose = E.loose /\ x.catchup = E.catchup
               /\ x.runs = E.runs /\ x.timedOut = E.timedOut /\ x.locks = E.locks
BY DEF EngineStates

LEMMA SetLocks ==
    ASSUME NEW E \in EngineStates, NEW v \in Managers
    PROVE  LET x == [E EXCEPT !.locks = v]
           IN  /\ x \in EngineStates /\ x.locks = v
               /\ x.tasks = E.tasks /\ x.tracked = E.tracked /\ x.loose = E.loose /\ x.catchup = E.catchup
               /\ x.runs = E.runs /\ x.timedOut = E.timedOut /\ x.owed = E.owed
BY DEF EngineStates

-----------------------------------------------------------------------------
(* Timers.                                                                 *)

LEMMA CancelTimerState ==
    ASSUME NEW E \in EngineStates, NEW t \in Tasks
    PROVE  CancelTimer(E, t) \in EngineStates
<1> DEFINE v == [E.tracked EXCEPT ![t] = <<>>]
<1>1. v \in [Tasks -> Seq(Rec)]
  BY DEF EngineStates
<1>2. CancelTimer(E, t) = [E EXCEPT !.tracked = v]
  BY DEF CancelTimer
<1> HIDE DEF v
<1> QED BY <1>1, <1>2, SetTracked

LEMMA ScheduleOneState ==
    ASSUME NEW E \in EngineStates, NEW task \in Rec
    PROVE  ScheduleOne(E, task) \in EngineStates
<1>1. CASE ~HasNextRun(task) \/ disposed \/ ~Supported(task)
  BY <1>1 DEF ScheduleOne
<1>2. CASE ~(~HasNextRun(task) \/ disposed \/ ~Supported(task))
  <2>0. task.id \in Tasks
    BY DEF Rec
  <2> DEFINE v == [E.tracked EXCEPT ![task.id] = <<task>>]
             F == [E EXCEPT !.tracked = v]
             w == [E.loose EXCEPT ![task.id] = E.loose[task.id] \o E.tracked[task.id]]
  <2>1. /\ E.tracked \in [Tasks -> Seq(Rec)] /\ E.loose \in [Tasks -> Seq(Rec)]
    BY DEF EngineStates
  <2>2. <<task>> \in Seq(Rec) /\ E.loose[task.id] \o E.tracked[task.id] \in Seq(Rec)
    BY <2>0, <2>1, ConcatProperties
  <2>3. v \in [Tasks -> Seq(Rec)] /\ w \in [Tasks -> Seq(Rec)]
    BY <2>0, <2>1, <2>2
  <2>4. F \in EngineStates /\ F.loose = E.loose
    <3> HIDE DEF v
    <3> QED BY <2>3, SetTracked
  <2>5. ScheduleOne(E, task) = [F EXCEPT !.loose = w]
    BY <1>2, <2>4 DEF ScheduleOne
  <2> HIDE DEF v, w, F
  <2> QED BY <2>3, <2>4, <2>5, SetLoose
<1> QED BY <1>1, <1>2

-----------------------------------------------------------------------------
(* fireTask.                                                               *)

\* The count of owed records stays in its range.
LEMMA OwedRange ==
    ASSUME NEW f \in [Tasks -> (-1) .. MaxOwed], NEW t \in Tasks
    PROVE  /\ [f EXCEPT ![t] = More(f[t])] \in [Tasks -> (-1) .. MaxOwed]
           /\ [f EXCEPT ![t] = Less(f[t])] \in [Tasks -> (-1) .. MaxOwed]
<1>1. f[t] \in (-1) .. MaxOwed
  OBVIOUS
<1>2. More(f[t]) \in (-1) .. MaxOwed /\ Less(f[t]) \in (-1) .. MaxOwed
  BY <1>1 DEF More, Less, MaxOwed
<1> QED BY <1>2

LEMMA AbortTurnType ==
    ASSUME NEW rs \in Seq(RunRec) PROVE AbortTurn(rs) \in Seq(RunRec)
<1>1. CASE ~(rs # <<>> /\ rs[1].started)
  BY <1>1 DEF AbortTurn
<1>2. CASE rs # <<>> /\ rs[1].started
  <2>1. 1 \in 1 .. Len(rs) /\ rs[1] \in RunRec
    BY <1>2, EmptySeq, LenProperties, ElementOfSeq
  <2> DEFINE r == [rs[1] EXCEPT !.aborted = TRUE]
  <2>2. r \in RunRec
    BY <2>1 DEF RunRec
  <2>3. AbortTurn(rs) = [rs EXCEPT ![1] = r]
    BY <1>2 DEF AbortTurn
  <2> HIDE DEF r
  <2>4. [rs EXCEPT ![1] = r] \in Seq(RunRec)
    BY <2>1, <2>2, ExceptSeq
  <2> QED BY <2>3, <2>4
<1> QED BY <1>1, <1>2

LEMMA HandleTimeoutState ==
    ASSUME NEW E \in EngineStates, NEW t \in Tasks
    PROVE  HandleTimeout(E, t) \in EngineStates /\ HandleTimeout(E, t).locks = E.locks
<1>1. CASE E.tasks[t] = None
  BY <1>1 DEF HandleTimeout
<1>2. CASE E.tasks[t] # None
  <2> DEFINE rs == AbortTurn(E.runs)
             F  == [E EXCEPT !.runs = rs]
             ts == F.timedOut \cup {t}
             G  == [F EXCEPT !.timedOut = ts]
             ow == [G.owed EXCEPT ![t] = Less(G.owed[t])]
             H  == [G EXCEPT !.owed = ow]
  <2>1. rs \in Seq(RunRec)
    BY AbortTurnType DEF EngineStates
  <2>2. F \in EngineStates /\ F.locks = E.locks
    <3> HIDE DEF rs
    <3> QED BY <2>1, SetRuns
  <2>3. ts \in SUBSET Tasks
    <3> HIDE DEF F
    <3> QED BY <2>2 DEF EngineStates
  <2>4. G \in EngineStates /\ G.locks = E.locks
    <3> HIDE DEF ts, F
    <3> QED BY <2>2, <2>3, SetTimedOut
  <2>5. ow \in [Tasks -> (-1) .. MaxOwed]
    <3> HIDE DEF G
    <3> QED BY <2>4, OwedRange DEF EngineStates
  <2>6. H \in EngineStates /\ H.locks = E.locks
    <3> HIDE DEF ow, G
    <3> QED BY <2>4, <2>5, SetOwed
  <2>7. HandleTimeout(E, t) = H
    BY <1>2 DEF HandleTimeout
  <2> HIDE DEF H
  <2> QED BY <2>6, <2>7
<1> QED BY <1>1, <1>2

LEMMA StartRunState ==
    ASSUME NEW E \in EngineStates, NEW task \in Rec, Supported(task), NEW key \in Sessions,
           NEW manual \in BOOLEAN
    PROVE  StartRun(E, task, key, manual) \in EngineStates
<1> DEFINE ow == [E.owed EXCEPT ![task.id] = More(E.owed[task.id])]
           F  == [E EXCEPT !.owed = ow]
           r  == [task |-> task, key |-> key, manual |-> manual,
                  started |-> FALSE, aborted |-> FALSE]
           rs == Append(F.runs, r)
<1>1. ow \in [Tasks -> (-1) .. MaxOwed]
  BY OwedRange DEF EngineStates, Rec
<1>2. F \in EngineStates
  <2> HIDE DEF ow
  <2> QED BY <1>1, SetOwed
<1>3. rs \in Seq(RunRec)
  <2>1. r \in RunRec
    BY DEF RunRec
  <2> HIDE DEF F, r
  <2> QED BY <1>2, <2>1, AppendProperties DEF EngineStates
<1>4. [F EXCEPT !.runs = rs] \in EngineStates
  <2> HIDE DEF F, rs
  <2> QED BY <1>2, <1>3, SetRuns
<1> QED BY <1>4 DEF StartRun

LEMMA LockKeySession ==
    ASSUME NEW task \in Rec, Supported(task) PROVE LockKey(task) \in Sessions
BY EngineAssumption DEF Rec, Supported, LockKey, NewTarget

LEMMA FireTaskState ==
    ASSUME NEW E \in EngineStates, NEW task \in Rec, NEW manual \in BOOLEAN
    PROVE  FireTask(E, task, manual) \in EngineStates
<1> DEFINE t       == task.id
           current == IF E.tasks[t] = None THEN task ELSE E.tasks[t]
           key     == LockKey(current)
           kind    == AcquireKind(E.locks, current, key, current.policy)
           evicted == Evicted(E.locks, current, key, current.policy)
           P       == IF evicted = None THEN E ELSE HandleTimeout(E, evicted)
           L       == Acquire(E.locks, current, key, current.policy)
           Q       == [P EXCEPT !.locks = L]
<1>1. CASE disposed \/ ~Supported(current)
  BY <1>1 DEF FireTask
<1>2. CASE ~(disposed \/ ~Supported(current))
  <2>1. t \in Tasks /\ E.tasks \in [Tasks -> Rec \cup {None}] /\ E.locks \in Managers
    BY DEF Rec, EngineStates
  <2>2. current \in Rec
    BY <2>1
  <2>3. FireTask(E, task, manual) =
          CASE kind = "skipped"  -> [E EXCEPT !.tasks[t] = current]
            [] kind = "queued"   -> Q
            [] kind = "acquired" -> StartRun(Q, current, key, manual)
    BY <1>2 DEF FireTask
  <2> HIDE DEF current
  <2>4. key \in Sessions /\ current.policy \in Policies /\ current.id \in Tasks
    BY <1>2, <2>2, LockKeySession DEF Rec
  <2> HIDE DEF key
  <2>5. evicted # None => evicted \in Tasks
    BY <2>1, <2>4 DEF Evicted, Managers, Shape
  <2> HIDE DEF evicted
  <2>6. P \in EngineStates
    BY <2>5, HandleTimeoutState
  <2>7. L \in Managers
    <3>1. Coherent(L, Rec)
      BY <2>1, <2>2, <2>4, RecIsTaskSet, AcquireCoherent DEF Managers
    <3> HIDE DEF L
    <3> QED BY <3>1 DEF Managers, Coherent, Base
  <2> HIDE DEF P, L
  <2>8. Q \in EngineStates
    BY <2>6, <2>7, SetLocks
  <2> HIDE DEF Q
  <2>9. StartRun(Q, current, key, manual) \in EngineStates
    BY <1>2, <2>8, <2>2, <2>4, StartRunState
  <2>10. [E EXCEPT !.tasks[t] = current] \in EngineStates
    <3> DEFINE v == [E.tasks EXCEPT ![t] = current]
    <3>1. v \in [Tasks -> Rec \cup {None}]
      BY <2>1, <2>2
    <3> HIDE DEF v
    <3>2. [E EXCEPT !.tasks = v] \in EngineStates
      BY <3>1, SetTasks
    <3> QED BY <3>2 DEF v
  <2>11. kind \in {"skipped", "queued", "acquired"}
    BY DEF AcquireKind
  <2> HIDE DEF kind
  <2> QED BY <2>3, <2>8, <2>9, <2>10, <2>11
<1> QED BY <1>1, <1>2

-----------------------------------------------------------------------------
(* The settlement of a dispatch.                                           *)

Landed == Rooms \cup {None}

LEMMA MigrateState ==
    ASSUME NEW E \in EngineStates, NEW run \in RunRec, NEW landed \in Landed
    PROVE  Migrate(E, run, landed) \in EngineStates
<1>1. CASE landed = None \/ (run.task.target # NewTarget /\ run.task.target = landed)
  BY <1>1 DEF Migrate
<1>2. CASE ~(landed = None \/ (run.task.target # NewTarget /\ run.task.target = landed))
  <2> DEFINE L == Reassign(E.locks, run.key, landed)
  <2>1. landed \in Sessions /\ run.key \in Sessions /\ E.locks \in Managers
    BY <1>2, EngineAssumption DEF Landed, RunRec, EngineStates
  <2>2. Coherent(L, Rec)
    BY <2>1, RecIsTaskSet, ReassignCoherent DEF Managers
  <2>3. Migrate(E, run, landed) = [E EXCEPT !.locks = L]
    BY <1>2 DEF Migrate
  <2> HIDE DEF L
  <2>4. L \in Managers
    BY <2>2 DEF Managers, Coherent, Base
  <2> QED BY <2>3, <2>4, SetLocks
<1> QED BY <1>1, <1>2

LEMMA AfterDispatchType ==
    ASSUME NEW run \in RunRec, NEW landed \in Landed
    PROVE  AfterDispatch(run, landed) \in Rec
<1>1. run.task \in Rec
  BY DEF RunRec
<1>2. CASE landed = None \/ run.task.target = NewTarget
  BY <1>1, <1>2 DEF AfterDispatch
<1>3. CASE ~(landed = None \/ run.task.target = NewTarget)
  <2> DEFINE task == run.task
  <2>1. landed \in Rooms
    BY <1>3 DEF Landed
  <2>2. AfterDispatch(run, landed) = [task EXCEPT !.target = landed]
    BY <1>3 DEF AfterDispatch
  <2> HIDE DEF task
  <2>3. task \in Rec
    BY <1>1 DEF task
  <2>4. [task EXCEPT !.target = landed] \in Rec
    BY <2>1, <2>3 DEF Rec
  <2> QED BY <2>2, <2>4
<1> QED BY <1>2, <1>3

\* Writing a task and counting its record, as two operators do.
LEMMA WriteTaskState ==
    ASSUME NEW E \in EngineStates, NEW t \in Tasks, NEW task \in Rec
    PROVE  [E EXCEPT !.tasks[t] = task, !.owed[t] = Less(@)] \in EngineStates
<1> DEFINE v  == [E.tasks EXCEPT ![t] = task]
           F  == [E EXCEPT !.tasks = v]
           ow == [F.owed EXCEPT ![t] = Less(F.owed[t])]
<1>1. v \in [Tasks -> Rec \cup {None}]
  BY DEF EngineStates
<1>2. F \in EngineStates
  <2> HIDE DEF v
  <2> QED BY <1>1, SetTasks
<1>3. ow \in [Tasks -> (-1) .. MaxOwed]
  <2> HIDE DEF F
  <2> QED BY <1>2, OwedRange DEF EngineStates
<1>4. [F EXCEPT !.owed = ow] \in EngineStates
  <2> HIDE DEF F, ow
  <2> QED BY <1>2, <1>3, SetOwed
<1> QED BY <1>4

LEMMA ForgetTimeoutState ==
    ASSUME NEW E \in EngineStates, NEW t
    PROVE  /\ [E EXCEPT !.timedOut = @ \ {t}] \in EngineStates
           /\ [E EXCEPT !.timedOut = @ \ {t}].locks = E.locks
<1> DEFINE v == E.timedOut \ {t}
<1>1. v \in SUBSET Tasks
  BY DEF EngineStates
<1> HIDE DEF v
<1>2. [E EXCEPT !.timedOut = v] \in EngineStates /\ [E EXCEPT !.timedOut = v].locks = E.locks
  BY <1>1, SetTimedOut
<1> QED BY <1>2 DEF v

LEMMA RecordRunState ==
    ASSUME NEW E \in EngineStates, NEW run \in RunRec, NEW landed \in Landed
    PROVE  RecordRun(E, run, landed) \in EngineStates
<1>1. run.task.id \in Tasks
  BY DEF RunRec, Rec
<1>2. AfterDispatch(run, landed) \in Rec
  BY AfterDispatchType
<1>3. CASE run.task.id \in E.timedOut
  BY <1>3, ForgetTimeoutState DEF RecordRun
<1>4. CASE run.task.id \notin E.timedOut
  BY <1>1, <1>2, <1>4, WriteTaskState DEF RecordRun
<1> QED BY <1>3, <1>4

LEMMA RescheduleState ==
    ASSUME NEW E \in EngineStates, NEW run \in RunRec
    PROVE  Reschedule(E, run) \in EngineStates
<1> DEFINE t == run.task.id
           updated == E.tasks[t]
<1>1. t \in Tasks /\ run.task \in Rec /\ E.tasks \in [Tasks -> Rec \cup {None}]
  BY DEF RunRec, Rec, EngineStates
<1>2. CASE updated = None
  BY <1>1, <1>2, WriteTaskState DEF Reschedule
<1>3. CASE updated # None /\ (~updated.enabled \/ disposed)
  BY <1>3 DEF Reschedule
<1>4. CASE updated # None /\ ~(~updated.enabled \/ disposed) /\ window[t] # "over"
  BY <1>1, <1>4, ScheduleOneState DEF Reschedule
<1>5. CASE updated # None /\ ~(~updated.enabled \/ disposed) /\ window[t] = "over" /\ run.manual
  BY <1>5 DEF Reschedule
<1>6. CASE updated # None /\ ~(~updated.enabled \/ disposed) /\ window[t] = "over" /\ ~run.manual
  <2> DEFINE r == [updated EXCEPT !.enabled = FALSE]
             v == [E.tasks EXCEPT ![t] = r]
  <2>1. updated \in Rec
    BY <1>1, <1>6
  <2>2. r \in Rec
    <3> HIDE DEF updated
    <3> QED BY <2>1 DEF Rec
  <2>3. Reschedule(E, run) = [E EXCEPT !.tasks = v]
    BY <1>6 DEF Reschedule
  <2> HIDE DEF r
  <2>4. v \in [Tasks -> Rec \cup {None}]
    BY <1>1, <2>2
  <2> HIDE DEF v
  <2> QED BY <2>3, <2>4, SetTasks
<1> QED BY <1>2, <1>3, <1>4, <1>5, <1>6

LEMMA ReleaseAndNextState ==
    ASSUME NEW E \in EngineStates, NEW run \in RunRec
    PROVE  ReleaseAndNext(E, run) \in EngineStates
<1> DEFINE t    == run.task.id
           next == HandedTo(E.locks, t)
           G    == [E EXCEPT !.timedOut = @ \ {t}]
           L    == Release(E.locks, t)
           F    == [G EXCEPT !.locks = L]
<1>1. t \in Tasks /\ E.locks \in Managers
  BY DEF RunRec, Rec, EngineStates
<1>2. Coherent(L, Rec) /\ (next # None => next \in Rec)
  BY <1>1, RecIsTaskSet, ReleaseCoherent DEF Managers
<1>3. G \in EngineStates /\ G.locks = E.locks
  BY ForgetTimeoutState
<1>4. ReleaseAndNext(E, run) = IF next = None THEN F ELSE FireTask(F, next, FALSE)
  BY <1>3 DEF ReleaseAndNext
<1> HIDE DEF G, L, next
<1>5. L \in Managers
  BY <1>2 DEF Managers, Coherent, Base
<1>6. F \in EngineStates
  BY <1>3, <1>5, SetLocks
<1> HIDE DEF F
<1> QED BY <1>2, <1>4, <1>6, FireTaskState

LEMMA SettleState ==
    ASSUME NEW E \in EngineStates, E.runs # <<>>, NEW landed \in Landed
    PROVE  Settle(E, E.runs[1], landed) \in EngineStates
<1> DEFINE run == E.runs[1]
           A == [E EXCEPT !.runs = Tail(@)]
           B == Migrate(A, run, landed)
           C == RecordRun(B, run, landed)
           D == Reschedule(C, run)
<1>1. E.runs \in Seq(RunRec)
  BY DEF EngineStates
<1>2. run \in RunRec /\ Tail(E.runs) \in Seq(RunRec)
  BY <1>1, EmptySeq, LenProperties, ElementOfSeq, HeadTailProperties
<1>3. A \in EngineStates
  BY <1>2, SetRuns
<1>4. Settle(E, run, landed) = ReleaseAndNext(D, run)
  BY DEF Settle
<1> HIDE DEF A, run
<1>5. B \in EngineStates
  BY <1>2, <1>3, MigrateState
<1> HIDE DEF B
<1>6. C \in EngineStates
  BY <1>2, <1>5, RecordRunState
<1> HIDE DEF C
<1>7. D \in EngineStates
  BY <1>2, <1>6, RescheduleState
<1> HIDE DEF D
<1>8. Settle(E, run, landed) \in EngineStates
  BY <1>2, <1>4, <1>7, ReleaseAndNextState
<1> QED BY <1>8 DEF run

-----------------------------------------------------------------------------
(* The invariant.                                                          *)

LEMMA NowState == ASSUME EngineInv PROVE Now \in EngineStates
BY DEF EngineInv, EngineTypeOK, Now, EngineStates, Managers, Coherent, Base

\* What is left of the invariant once the engine record is known to be one.
LEMMA BecomesInv ==
    ASSUME NEW E \in EngineStates, Becomes(E), EngineInv,
           disposed' \in BOOLEAN, window' \in [Tasks -> {"open", "last", "over"}],
           created' \subseteq Tasks, deleted' \subseteq Tasks,
           edits' \in [Tasks -> Nat], ops' \in 0 .. MaxOps
    PROVE  EngineInv'
<1>1. /\ tasks' = E.tasks /\ tracked' = E.tracked /\ loose' = E.loose
      /\ catchup' = E.catchup /\ runs' = E.runs /\ timedOut' = E.timedOut
      /\ owed' = E.owed /\ locks' = E.locks
  BY DEF Becomes
<1>2. EngineTypeOK'
  BY <1>1 DEF EngineTypeOK, EngineStates
<1>3. Coherent(locks', Rec)
  BY <1>1 DEF EngineStates, Managers
<1>4. Coherent(locks, Rec)' <=> Coherent(locks', Rec)
  BY DEF Coherent, Base, Shape, Distinct, Rec
<1> QED BY <1>2, <1>3, <1>4 DEF EngineInv

LEMMA NewTasksType ==
    ASSUME NEW t \in Tasks, NEW version \in Nat PROVE NewTasks(t, version) \subseteq Rec
BY EngineAssumption DEF NewTasks, Rec

LEMMA InitInv == EngineInit => EngineInv
<1> SUFFICES ASSUME EngineInit PROVE EngineInv
  OBVIOUS
<1>1. PICK f \in [InitTasks -> UNION {NewTasks(t, 0) : t \in InitTasks}] :
         tasks = [t \in Tasks |-> IF t \in InitTasks THEN f[t] ELSE None]
  BY DEF EngineInit
<1>2. InitTasks \subseteq Tasks /\ MaxOps \in Nat
  BY EngineAssumption
<1>3. \A t \in InitTasks : f[t] \in Rec
  <2>1. UNION {NewTasks(t, 0) : t \in InitTasks} \subseteq Rec
    <3>1. \A t \in InitTasks : NewTasks(t, 0) \subseteq Rec
      BY <1>2, NewTasksType
    <3> QED BY <3>1
  <2> QED BY <2>1
<1>4. tasks \in [Tasks -> Rec \cup {None}]
  BY <1>1, <1>3
<1>5. tracked \in [Tasks -> Seq(Rec)]
  <2>1. ASSUME NEW t \in Tasks PROVE Rearmed(tasks)[t] \in Seq(Rec)
    <3>1. tasks[t] # None => tasks[t] \in Rec
      BY <1>4, <2>1
    <3>2. CASE tasks[t] # None
      <4>1. <<tasks[t]>> \in Seq(Rec) /\ <<>> \in Seq(Rec)
        BY <3>1, <3>2
      <4> QED BY <4>1, <2>1 DEF Rearmed
    <3>3. CASE tasks[t] = None
      BY <3>3, <2>1 DEF Rearmed
    <3> QED BY <3>2, <3>3
  <2> QED BY <2>1 DEF EngineInit, Rearmed
<1>6. catchup \in [Tasks -> Nat] /\ owed \in [Tasks -> (-1) .. MaxOwed] /\ edits \in [Tasks -> Nat]
  BY DEF EngineInit, MaxOwed
<1>7. Coherent(locks, Rec)
  BY NoLocksCoherent DEF EngineInit
<1>8. /\ loose \in [Tasks -> Seq(Rec)] /\ runs \in Seq(RunRec) /\ timedOut \subseteq Tasks
      /\ window \in [Tasks -> {"open", "last", "over"}]
  BY DEF EngineInit
<1>9. /\ disposed \in BOOLEAN /\ created \subseteq Tasks /\ deleted \subseteq Tasks
      /\ ops \in 0 .. MaxOps
  <2>1. disposed = FALSE /\ created = InitTasks /\ deleted = {} /\ ops = 0
    BY DEF EngineInit
  <2>2. ops \in 0 .. MaxOps
    BY <2>1, <1>2
  <2>3. disposed \in BOOLEAN
    BY <2>1
  <2>4. created \subseteq Tasks /\ deleted \subseteq Tasks
    BY <2>1, <1>2
  <2> QED BY <2>2, <2>3, <2>4
<1> QED BY <1>4, <1>5, <1>6, <1>7, <1>8, <1>9 DEF EngineInv, EngineTypeOK

-----------------------------------------------------------------------------
(* Every step.                                                             *)

LEMMA CommandOps == ASSUME EngineInv, NEW op, Command(op) PROVE ops' \in 0 .. MaxOps
BY EngineAssumption DEF Command, EngineInv, EngineTypeOK

LEMMA LandingsType ==
    ASSUME NEW task \in Rec, Supported(task) PROVE Landings(task) \subseteq Landed
BY DEF Landings, Landed, Rec, Supported, NewTarget

\* Re-arming every timer, as load() does.
LEMMA RearmedType ==
    ASSUME NEW ts \in [Tasks -> Rec \cup {None}] PROVE Rearmed(ts) \in [Tasks -> Seq(Rec)]
<1>1. ASSUME NEW t \in Tasks PROVE Rearmed(ts)[t] \in Seq(Rec)
  <2>1. CASE ts[t] # None
    <3>1. <<ts[t]>> \in Seq(Rec) /\ <<>> \in Seq(Rec)
      BY <2>1
    <3> QED BY <3>1 DEF Rearmed
  <2>2. CASE ts[t] = None
    BY <2>2 DEF Rearmed
  <2> QED BY <2>1, <2>2
<1> QED BY <1>1 DEF Rearmed

LEMMA CreateInv == ASSUME EngineInv, NEW t \in Tasks, Create(t) PROVE EngineInv'
<1>1. PICK task \in NewTasks(t, 0) : Becomes(ScheduleOne([Now EXCEPT !.tasks[t] = task], task))
  BY DEF Create
<1> DEFINE v == [Now.tasks EXCEPT ![t] = task]
           E == [Now EXCEPT !.tasks = v]
<1>2. task \in Rec
  BY NewTasksType
<1>3. Now \in EngineStates
  BY NowState
<1>4. v \in [Tasks -> Rec \cup {None}]
  <2> HIDE DEF Now
  <2> QED BY <1>2, <1>3 DEF EngineStates
<1>5. E \in EngineStates
  <2> HIDE DEF v
  <2> QED BY <1>3, <1>4, SetTasks
<1> HIDE DEF E
<1>6. ScheduleOne(E, task) \in EngineStates
  BY <1>2, <1>5, ScheduleOneState
<1>7. Becomes(ScheduleOne(E, task))
  BY <1>1 DEF E
<1>8. ops' \in 0 .. MaxOps
  BY CommandOps DEF Create
<1> QED BY <1>6, <1>7, <1>8, BecomesInv DEF Create, EngineInv, EngineTypeOK

LEMMA UpdateInv == ASSUME EngineInv, NEW t \in Tasks, Update(t) PROVE EngineInv'
<1>0. edits \in [Tasks -> Nat] /\ edits[t] + 1 \in Nat
  BY DEF EngineInv, EngineTypeOK
<1>1. PICK task \in NewTasks(t, edits[t] + 1) :
         LET E == CancelTimer([Now EXCEPT !.tasks[t] = task], t)
         IN  Becomes(IF task.enabled THEN ScheduleOne(E, task) ELSE E)
  BY DEF Update
<1> DEFINE v == [Now.tasks EXCEPT ![t] = task]
           D == [Now EXCEPT !.tasks = v]
           E == CancelTimer(D, t)
           F == IF task.enabled THEN ScheduleOne(E, task) ELSE E
<1>2. task \in Rec
  BY <1>0, NewTasksType
<1>3. Now \in EngineStates
  BY NowState
<1>4. v \in [Tasks -> Rec \cup {None}]
  <2> HIDE DEF Now
  <2> QED BY <1>2, <1>3 DEF EngineStates
<1>5. D \in EngineStates
  <2> HIDE DEF v
  <2> QED BY <1>3, <1>4, SetTasks
<1>6. Becomes(F)
  BY <1>1
<1> HIDE DEF D
<1>7. E \in EngineStates
  BY <1>5, CancelTimerState
<1> HIDE DEF E
<1>8. F \in EngineStates
  BY <1>2, <1>7, ScheduleOneState
<1> HIDE DEF F
<1>9. ops' \in 0 .. MaxOps
  BY CommandOps DEF Update
<1>10. edits' \in [Tasks -> Nat]
  BY <1>0 DEF Update
<1> QED BY <1>6, <1>8, <1>9, <1>10, BecomesInv DEF Update, EngineInv, EngineTypeOK

LEMMA DeleteInv == ASSUME EngineInv, NEW t \in Tasks, Delete(t) PROVE EngineInv'
<1> DEFINE D == CancelTimer(Now, t)
           v == [D.tasks EXCEPT ![t] = None]
           E == [D EXCEPT !.tasks = v]
<1>1. Becomes(E)
  BY DEF Delete
<1>2. D \in EngineStates
  BY NowState, CancelTimerState
<1> HIDE DEF D
<1>3. v \in [Tasks -> Rec \cup {None}]
  BY <1>2 DEF EngineStates
<1> HIDE DEF v
<1>4. E \in EngineStates
  BY <1>2, <1>3, SetTasks
<1> HIDE DEF E
<1>5. ops' \in 0 .. MaxOps
  BY CommandOps DEF Delete
<1> QED BY <1>1, <1>4, <1>5, BecomesInv DEF Delete, EngineInv, EngineTypeOK

LEMMA RunNowInv == ASSUME EngineInv, NEW t \in Tasks, RunNow(t) PROVE EngineInv'
<1>1. tasks[t] \in Rec
  BY DEF RunNow, EngineInv, EngineTypeOK
<1>2. FireTask(Now, tasks[t], TRUE) \in EngineStates
  BY <1>1, NowState, FireTaskState
<1>3. ops' \in 0 .. MaxOps
  BY CommandOps DEF RunNow
<1> QED BY <1>2, <1>3, BecomesInv DEF RunNow, EngineInv, EngineTypeOK

LEMMA ReloadInv == ASSUME EngineInv, Reload PROVE EngineInv'
<1>1. PICK missed \in SUBSET MayHaveMissed :
         Becomes([Now EXCEPT !.tracked = Rearmed(tasks),
                             !.catchup = [t \in Tasks |-> IF t \in missed THEN @[t] + 1 ELSE @[t]]])
  BY DEF Reload
<1> DEFINE v == Rearmed(tasks)
           D == [Now EXCEPT !.tracked = v]
           w == [t \in Tasks |-> IF t \in missed THEN D.catchup[t] + 1 ELSE D.catchup[t]]
           E == [D EXCEPT !.catchup = w]
<1>2. v \in [Tasks -> Seq(Rec)]
  BY RearmedType DEF EngineInv, EngineTypeOK
<1>3. Becomes(E)
  BY <1>1
<1> HIDE DEF v
<1>4. D \in EngineStates
  BY <1>2, NowState, SetTracked
<1> HIDE DEF D
<1>5. w \in [Tasks -> Nat]
  BY <1>4 DEF EngineStates
<1> HIDE DEF w
<1>6. E \in EngineStates
  BY <1>4, <1>5, SetCatchup
<1> HIDE DEF E
<1>7. ops' \in 0 .. MaxOps
  BY CommandOps DEF Reload
<1> QED BY <1>3, <1>6, <1>7, BecomesInv DEF Reload, EngineInv, EngineTypeOK

LEMMA DisposeInv == ASSUME EngineInv, Dispose PROVE EngineInv'
<1> DEFINE v == [t \in Tasks |-> <<>>]
           D == [Now EXCEPT !.tracked = v]
           E == [D EXCEPT !.locks = NoLocks]
<1>1. Becomes(IF disposed THEN Now ELSE E)
  BY DEF Dispose
<1>2. v \in [Tasks -> Seq(Rec)]
  OBVIOUS
<1> HIDE DEF v
<1>3. D \in EngineStates
  BY <1>2, NowState, SetTracked
<1> HIDE DEF D
<1>4. NoLocks \in Managers
  BY NoLocksCoherent DEF Managers, Coherent, Base
<1>5. E \in EngineStates
  BY <1>3, <1>4, SetLocks
<1> HIDE DEF E
<1>6. (IF disposed THEN Now ELSE E) \in EngineStates
  BY <1>5, NowState
<1>7. ops' \in 0 .. MaxOps
  BY CommandOps DEF Dispose
<1> QED BY <1>1, <1>6, <1>7, BecomesInv DEF Dispose, EngineInv, EngineTypeOK

LEMMA TimerFiresInv == ASSUME EngineInv, NEW t \in Tasks, TimerFires(t) PROVE EngineInv'
<1>1. PICK i \in 1 .. Len(Armed(t)) :
         Becomes(FireTask([Now EXCEPT !.loose[t] = RemoveAt(Armed(t), i), !.tracked[t] = <<>>],
                          Armed(t)[i], FALSE))
  BY DEF TimerFires
<1> DEFINE a == Armed(t)
           v == [Now.loose EXCEPT ![t] = RemoveAt(a, i)]
           D == [Now EXCEPT !.loose = v]
           w == [D.tracked EXCEPT ![t] = <<>>]
           E == [D EXCEPT !.tracked = w]
<1>2. loose \in [Tasks -> Seq(Rec)] /\ loose[t] \in Seq(Rec) /\ tracked[t] \in Seq(Rec)
  BY DEF EngineInv, EngineTypeOK
<1>3. a \in Seq(Rec)
  BY <1>2, ConcatProperties DEF Armed
<1>4. Becomes(FireTask(E, a[i], FALSE))
  BY <1>1
<1>5. i \in 1 .. Len(a)
  OBVIOUS
<1> HIDE DEF a
<1>6. a[i] \in Rec /\ RemoveAt(a, i) \in Seq(Rec)
  BY <1>3, <1>5, ElementOfSeq DEF RemoveAt
<1>7. v \in [Tasks -> Seq(Rec)]
  BY <1>2, <1>6 DEF Now
<1> HIDE DEF v
<1>8. D \in EngineStates
  BY <1>7, NowState, SetLoose
<1> HIDE DEF D
<1>9. w \in [Tasks -> Seq(Rec)]
  BY <1>8 DEF EngineStates
<1> HIDE DEF w
<1>10. E \in EngineStates
  BY <1>8, <1>9, SetTracked
<1> HIDE DEF E
<1>11. FireTask(E, a[i], FALSE) \in EngineStates
  BY <1>6, <1>10, FireTaskState
<1> QED BY <1>4, <1>11, BecomesInv DEF TimerFires, EngineInv, EngineTypeOK

LEMMA CatchUpFiresInv == ASSUME EngineInv, NEW t \in Tasks, CatchUpFires(t) PROVE EngineInv'
<1> DEFINE v == [Now.catchup EXCEPT ![t] = Now.catchup[t] - 1]
           E == [Now EXCEPT !.catchup = v]
           F == IF disposed \/ tasks[t] = None \/ ~tasks[t].enabled THEN E
                ELSE FireTask(E, tasks[t], FALSE)
<1>1. catchup[t] > 0 /\ Becomes(F)
  BY DEF CatchUpFires
<1>2. v \in [Tasks -> Nat]
  BY <1>1 DEF Now, EngineInv, EngineTypeOK
<1> HIDE DEF v
<1>3. E \in EngineStates
  BY <1>2, NowState, SetCatchup
<1> HIDE DEF E
<1>4. tasks[t] # None => tasks[t] \in Rec
  BY DEF EngineInv, EngineTypeOK
<1>5. F \in EngineStates
  BY <1>3, <1>4, FireTaskState
<1> HIDE DEF F
<1> QED BY <1>1, <1>5, BecomesInv DEF CatchUpFires, EngineInv, EngineTypeOK

LEMMA DispatchStartsInv == ASSUME EngineInv, DispatchStarts PROVE EngineInv'
<1> DEFINE r == [runs[1] EXCEPT !.started = TRUE]
           v == [runs EXCEPT ![1] = r]
           E == [Now EXCEPT !.runs = v]
           F == IF disposed \/ runs[1].task.id \in timedOut THEN Settle(Now, runs[1], None) ELSE E
<1>1. runs # <<>> /\ Becomes(F)
  BY DEF DispatchStarts, Now
<1>2. 1 \in 1 .. Len(runs) /\ runs[1] \in RunRec /\ runs \in Seq(RunRec)
  BY <1>1, EmptySeq, LenProperties, ElementOfSeq DEF EngineInv, EngineTypeOK
<1>3. r \in RunRec
  BY <1>2 DEF RunRec
<1> HIDE DEF r
<1>4. v \in Seq(RunRec)
  BY <1>2, <1>3, ExceptSeq
<1> HIDE DEF v
<1>5. E \in EngineStates
  BY <1>4, NowState, SetRuns
<1> HIDE DEF E
<1>6. Now.runs = runs
  BY DEF Now
<1>7. Settle(Now, runs[1], None) \in EngineStates
  BY <1>1, <1>6, NowState, SettleState DEF Landed
<1>8. F \in EngineStates
  BY <1>5, <1>7
<1> HIDE DEF F
<1> QED BY <1>1, <1>8, BecomesInv DEF DispatchStarts, EngineInv, EngineTypeOK

\* Only tasks with a supported target are run, so what the dispatcher reports
\* is a session or nothing.
LEMMA DispatchEndsInv == ASSUME EngineInv, DispatchEnds PROVE EngineInv'
<1>1. PICK landed \in Landings(runs[1].task) : Becomes(Settle(Now, runs[1], landed))
  BY DEF DispatchEnds
<1>2. runs # <<>> /\ runs[1] \in RunRec
  BY EmptySeq, LenProperties, ElementOfSeq DEF DispatchEnds, EngineInv, EngineTypeOK
<1>3. landed \in Landed
  BY <1>2, LandingsType DEF RunRec, EngineInv
<1>4. Now.runs = runs
  BY DEF Now
<1>5. Settle(Now, runs[1], landed) \in EngineStates
  BY <1>2, <1>3, <1>4, NowState, SettleState
<1> QED BY <1>1, <1>5, BecomesInv DEF DispatchEnds, EngineInv, EngineTypeOK

LEMMA LockTimesOutInv == ASSUME EngineInv, NEW s \in Sessions, LockTimesOut(s) PROVE EngineInv'
<1> DEFINE L == TimeoutFired(locks, s)
           E == [Now EXCEPT !.locks = L]
<1>1. Becomes(HandleTimeout(E, locks.holder[s])) /\ s \in locks.armed
  BY DEF LockTimesOut, Now
<1>2. locks.holder[s] \in Tasks
  BY <1>1 DEF EngineInv, Coherent, Base, Shape
<1>3. L \in Managers
  <2>1. Coherent(L, Rec)
    BY TimeoutFiredCoherent DEF EngineInv
  <2> HIDE DEF L
  <2> QED BY <2>1 DEF Managers, Coherent, Base
<1> HIDE DEF L
<1>4. E \in EngineStates
  BY <1>3, NowState, SetLocks
<1> HIDE DEF E
<1>5. HandleTimeout(E, locks.holder[s]) \in EngineStates
  BY <1>2, <1>4, HandleTimeoutState
<1> QED BY <1>1, <1>5, BecomesInv DEF LockTimesOut, EngineInv, EngineTypeOK

LEMMA WindowClosesInv == ASSUME EngineInv, NEW t \in Tasks, WindowCloses(t) PROVE EngineInv'
<1>1. UNCHANGED <<tasks, tracked, loose, catchup, runs, timedOut, owed, locks, disposed,
                  created, deleted, edits, ops>>
  BY DEF WindowCloses, engine
<1>2. window' \in [Tasks -> {"open", "last", "over"}]
  BY DEF WindowCloses, EngineInv, EngineTypeOK
<1>3. EngineTypeOK'
  BY <1>1, <1>2 DEF EngineTypeOK, EngineInv
<1>4. Coherent(locks, Rec)'
  BY <1>1 DEF EngineInv, Coherent, Base, Shape, Distinct, Rec
<1> QED BY <1>3, <1>4 DEF EngineInv

LEMMA StutterInv == ASSUME EngineInv, UNCHANGED evars PROVE EngineInv'
<1>1. UNCHANGED <<tasks, tracked, loose, catchup, runs, timedOut, owed, locks, disposed,
                  window, created, deleted, edits, ops>>
  BY DEF evars, engine
<1>2. EngineTypeOK'
  BY <1>1 DEF EngineTypeOK, EngineInv
<1>3. Coherent(locks, Rec)'
  BY <1>1 DEF EngineInv, Coherent, Base, Shape, Distinct, Rec
<1> QED BY <1>2, <1>3 DEF EngineInv

\* The invariant holds in every reachable state.
THEOREM EngineInvariant == EngineSpec => []EngineInv
<1>1. EngineInv /\ [EngineNext]_evars => EngineInv'
  <2> SUFFICES ASSUME EngineInv, [EngineNext]_evars PROVE EngineInv'
    OBVIOUS
  <2>1. ASSUME NEW t \in Tasks, Create(t) \/ Update(t) \/ Delete(t) \/ RunNow(t) PROVE EngineInv'
    BY <2>1, CreateInv, UpdateInv, DeleteInv, RunNowInv
  <2>2. CASE Reload \/ Dispose
    BY <2>2, ReloadInv, DisposeInv
  <2>3. ASSUME NEW t \in Tasks, TimerFires(t) \/ CatchUpFires(t) \/ WindowCloses(t) PROVE EngineInv'
    BY <2>3, TimerFiresInv, CatchUpFiresInv, WindowClosesInv
  <2>4. CASE DispatchStarts \/ DispatchEnds
    BY <2>4, DispatchStartsInv, DispatchEndsInv
  <2>5. ASSUME NEW s \in Sessions, LockTimesOut(s) PROVE EngineInv'
    BY <2>5, LockTimesOutInv
  <2> QED BY <2>1, <2>2, <2>3, <2>4, <2>5, StutterInv DEF EngineNext
<1> QED BY <1>1, InitInv, PTL DEF EngineSpec

\* The engine's state keeps its types, and a stored task never gets a target
\* that is no session.
THEOREM EngineTypeCorrect == EngineSpec => []EngineTypeOK
<1>1. EngineInv => EngineTypeOK
  BY DEF EngineInv
<1> QED BY <1>1, EngineInvariant, PTL

\* Whatever the user commands, and however timers, timeouts and dispatches
\* interleave, the lock manager stays coherent.
THEOREM EngineLocksSound == EngineSpec => []LocksSound
<1>1. EngineInv => LocksSound
  BY DEF EngineInv, Coherent, Base, Distinct, LocksSound, IndexSound, QueueHasHolder,
         QueueDistinct, TimeoutHasHolder
<1> QED BY <1>1, EngineInvariant, PTL

-----------------------------------------------------------------------------
(* After dispose().                                                        *)

\* R is no longer than S, and no more of it has been given to the dispatcher.
NoMoreRuns(R, S) ==
    /\ Len(R) <= Len(S)
    /\ Cardinality({i \in DOMAIN R : R[i].started}) <= Cardinality({i \in DOMAIN S : S[i].started})

LEMMA StartedFinite ==
    ASSUME NEW S \in Seq(RunRec)
    PROVE  /\ IsFiniteSet({i \in DOMAIN S : S[i].started})
           /\ Cardinality({i \in DOMAIN S : S[i].started}) \in Nat
<1>1. {i \in DOMAIN S : S[i].started} \subseteq 1 .. Len(S)
  OBVIOUS
<1>2. Len(S) \in Nat /\ IsFiniteSet(1 .. Len(S))
  BY FS_Interval
<1>3. IsFiniteSet({i \in DOMAIN S : S[i].started})
  BY <1>1, <1>2, FS_Subset
<1> QED BY <1>3, FS_CardinalityType

LEMMA SameNoMore ==
    ASSUME NEW S \in Seq(RunRec)
    PROVE  NoMoreRuns(S, S)
<1>1. Len(S) <= Len(S)
  OBVIOUS
<1>2. PICK c : c = Cardinality({i \in DOMAIN S : S[i].started})
  OBVIOUS
<1>3. c \in Nat
  BY <1>2, StartedFinite
<1>4. c <= c
  BY <1>3
<1> QED BY <1>1, <1>2, <1>4 DEF NoMoreRuns

LEMMA TailNoMore ==
    ASSUME NEW S \in Seq(RunRec), S # <<>>
    PROVE  NoMoreRuns(Tail(S), S)
<1> DEFINE R == Tail(S)
           A == {i \in DOMAIN R : R[i].started}
           B == {i \in DOMAIN S : S[i].started}
           f == [i \in A |-> i + 1]
<1>1. /\ R \in Seq(RunRec) /\ Len(S) \in Nat /\ Len(R) = Len(S) - 1
      /\ DOMAIN R = 1 .. Len(R) /\ DOMAIN S = 1 .. Len(S)
      /\ \A i \in 1 .. Len(R) : R[i] = S[i + 1]
  OBVIOUS
<1> HIDE DEF R
<1>2. \A i \in A : i \in Int /\ i + 1 \in B
  BY <1>1
<1>3. IsFiniteSet(B)
  BY StartedFinite
<1> HIDE DEF A, B
<1>4. f \in Injection(A, B)
  BY <1>2 DEF Injection, IsInjective
<1> HIDE DEF f
<1>5. Cardinality(A) <= Cardinality(B)
  BY <1>3, <1>4, FS_Injection
<1>6. Len(R) <= Len(S)
  BY <1>1
<1>7. NoMoreRuns(R, S)
  BY <1>5, <1>6 DEF NoMoreRuns, A, B
<1> QED BY <1>7 DEF R

LEMMA AbortNoMore ==
    ASSUME NEW S \in Seq(RunRec)
    PROVE  NoMoreRuns(AbortTurn(S), S)
<1> DEFINE r == [S[1] EXCEPT !.aborted = TRUE]
           R == [S EXCEPT ![1] = r]
<1>1. CASE ~(S # <<>> /\ S[1].started)
  BY <1>1, SameNoMore DEF AbortTurn
<1>2. CASE S # <<>> /\ S[1].started
  <2>1. 1 \in 1 .. Len(S) /\ S[1] \in RunRec
    BY <1>2, EmptySeq, LenProperties, ElementOfSeq
  <2>2. r \in RunRec /\ r.started = S[1].started
    BY <2>1 DEF RunRec
  <2>3. AbortTurn(S) = R
    BY <1>2 DEF AbortTurn
  <2> HIDE DEF r
  <2>4. R \in Seq(RunRec) /\ Len(R) = Len(S) /\ DOMAIN R = DOMAIN S
    BY <2>1, <2>2, ExceptSeq
  <2>5. \A i \in DOMAIN S : R[i].started = S[i].started
    BY <2>1, <2>2
  <2> HIDE DEF R
  <2>6. {i \in DOMAIN R : R[i].started} = {i \in DOMAIN S : S[i].started}
    BY <2>4, <2>5
  <2>7. NoMoreRuns(S, S)
    BY SameNoMore
  <2> QED BY <2>3, <2>4, <2>6, <2>7 DEF NoMoreRuns
<1> QED BY <1>1, <1>2

LEMMA DisposedKeeps ==
    ASSUME disposed, NEW E \in EngineStates
    PROVE  /\ \A task, manual : FireTask(E, task, manual) = E
           /\ \A task : ScheduleOne(E, task) = E
BY DEF FireTask, ScheduleOne

LEMMA TimeoutNoMore ==
    ASSUME NEW E \in EngineStates, NEW t \in Tasks
    PROVE  NoMoreRuns(HandleTimeout(E, t).runs, E.runs)
<1>1. E.runs \in Seq(RunRec)
  BY DEF EngineStates
<1>2. CASE E.tasks[t] = None
  BY <1>1, <1>2, SameNoMore DEF HandleTimeout
<1>3. CASE E.tasks[t] # None
  <2>1. HandleTimeout(E, t).runs = AbortTurn(E.runs)
    BY <1>3 DEF HandleTimeout, EngineStates
  <2> QED BY <1>1, <2>1, AbortNoMore
<1> QED BY <1>2, <1>3

\* The end of a run schedules nothing and runs nobody.
LEMMA DisposedSettle ==
    ASSUME disposed, NEW E \in EngineStates, E.runs # <<>>, NEW landed \in Landed
    PROVE  Settle(E, E.runs[1], landed).runs = Tail(E.runs)
<1> DEFINE run == E.runs[1]
           A == [E EXCEPT !.runs = Tail(@)]
           B == Migrate(A, run, landed)
           C == RecordRun(B, run, landed)
           D == Reschedule(C, run)
<1>1. E.runs \in Seq(RunRec)
  BY DEF EngineStates
<1>2. run \in RunRec /\ Tail(E.runs) \in Seq(RunRec)
  BY <1>1, EmptySeq, LenProperties, ElementOfSeq, HeadTailProperties
<1>3. A \in EngineStates /\ A.runs = Tail(E.runs)
  BY <1>2, SetRuns
<1>4. Settle(E, run, landed) = ReleaseAndNext(D, run)
  BY DEF Settle
<1> HIDE DEF A, run
<1>5. B \in EngineStates /\ B.runs = A.runs
  <2>1. B.runs = A.runs
    BY <1>3 DEF Migrate, EngineStates
  <2> QED BY <1>2, <1>3, <2>1, MigrateState
<1> HIDE DEF B
<1>6. C \in EngineStates /\ C.runs = B.runs
  <2>1. C.runs = B.runs
    BY <1>5 DEF RecordRun, EngineStates
  <2> QED BY <1>2, <1>5, <2>1, RecordRunState
<1> HIDE DEF C
<1>7. D \in EngineStates /\ D.runs = C.runs
  <2>1. D.runs = C.runs
    BY <1>6, DisposedKeeps DEF Reschedule, EngineStates
  <2> QED BY <1>2, <1>6, <2>1, RescheduleState
<1> HIDE DEF D
<1>8. ReleaseAndNext(D, run).runs = D.runs
  <2> DEFINE t    == run.task.id
             next == HandedTo(D.locks, t)
             G    == [D EXCEPT !.timedOut = @ \ {t}]
             L    == Release(D.locks, t)
             F    == [G EXCEPT !.locks = L]
  <2>1. ReleaseAndNext(D, run) = IF next = None THEN F ELSE FireTask(F, next, FALSE)
    BY <1>7 DEF ReleaseAndNext, EngineStates
  <2>2. F.runs = D.runs
    BY <1>7 DEF EngineStates
  <2>3. FireTask(F, next, FALSE) = F
    BY DEF FireTask
  <2> HIDE DEF F, next
  <2> QED BY <2>1, <2>2, <2>3
<1> QED BY <1>3, <1>4, <1>5, <1>6, <1>7, <1>8 DEF run

LEMMA DisposedStep ==
    ASSUME EngineInv, disposed, EngineNext
    PROVE  NoMoreRuns(runs', runs)
<1>1. Now \in EngineStates /\ Now.runs = runs /\ Now.tasks = tasks /\ runs \in Seq(RunRec)
  BY NowState DEF Now, EngineInv, EngineTypeOK
<1>2. NoMoreRuns(runs, runs)
  BY <1>1, SameNoMore
<1>3. ASSUME NEW E, E.runs = runs, Becomes(E) PROVE NoMoreRuns(runs', runs)
  BY <1>2, <1>3 DEF Becomes
<1>4. ASSUME NEW t \in Tasks, Create(t) PROVE NoMoreRuns(runs', runs)
  <2>1. PICK task : Becomes(ScheduleOne([Now EXCEPT !.tasks[t] = task], task))
    BY <1>4 DEF Create
  <2>2. ScheduleOne([Now EXCEPT !.tasks[t] = task], task) = [Now EXCEPT !.tasks[t] = task]
    BY DEF ScheduleOne
  <2>3. [Now EXCEPT !.tasks[t] = task].runs = runs
    BY <1>1 DEF EngineStates
  <2> QED BY <1>3, <2>1, <2>2, <2>3
<1>5. ASSUME NEW t \in Tasks, Update(t) PROVE NoMoreRuns(runs', runs)
  <2>1. PICK task : Becomes(IF task.enabled
                            THEN ScheduleOne(CancelTimer([Now EXCEPT !.tasks[t] = task], t), task)
                            ELSE CancelTimer([Now EXCEPT !.tasks[t] = task], t))
    BY <1>5 DEF Update
  <2>2. Becomes(CancelTimer([Now EXCEPT !.tasks[t] = task], t))
    BY <2>1 DEF ScheduleOne
  <2>3. CancelTimer([Now EXCEPT !.tasks[t] = task], t).runs = runs
    BY <1>1 DEF EngineStates, CancelTimer
  <2> QED BY <1>3, <2>2, <2>3
<1>6. ASSUME NEW t \in Tasks, Delete(t) PROVE NoMoreRuns(runs', runs)
  <2>1. Becomes([CancelTimer(Now, t) EXCEPT !.tasks[t] = None])
    BY <1>6 DEF Delete
  <2>2. [CancelTimer(Now, t) EXCEPT !.tasks[t] = None].runs = runs
    BY <1>1 DEF EngineStates, CancelTimer
  <2> QED BY <1>3, <2>1, <2>2
<1>7. ASSUME NEW t \in Tasks, RunNow(t) PROVE NoMoreRuns(runs', runs)
  <2>1. Becomes(FireTask(Now, tasks[t], TRUE))
    BY <1>7 DEF RunNow
  <2>2. FireTask(Now, tasks[t], TRUE) = Now
    BY <1>1, DisposedKeeps
  <2> QED BY <1>1, <1>3, <2>1, <2>2
<1>8. ~Reload
  BY DEF Reload
<1>9. ASSUME Dispose PROVE NoMoreRuns(runs', runs)
  <2>1. Becomes(Now)
    BY <1>9 DEF Dispose
  <2> QED BY <1>1, <1>3, <2>1
<1>10. ASSUME NEW t \in Tasks, TimerFires(t) PROVE NoMoreRuns(runs', runs)
  <2>1. PICK i \in 1 .. Len(Armed(t)) :
           Becomes(FireTask([Now EXCEPT !.loose[t] = RemoveAt(Armed(t), i), !.tracked[t] = <<>>],
                            Armed(t)[i], FALSE))
    BY <1>10 DEF TimerFires
  <2>2. PICK E : E = [Now EXCEPT !.loose[t] = RemoveAt(Armed(t), i), !.tracked[t] = <<>>]
    OBVIOUS
  <2>3. E.runs = runs
    BY <1>1, <2>2 DEF EngineStates
  <2>4. Becomes(E)
    BY <2>1, <2>2 DEF FireTask
  <2> QED BY <1>3, <2>3, <2>4
<1>11. ASSUME NEW t \in Tasks, CatchUpFires(t) PROVE NoMoreRuns(runs', runs)
  <2>1. Becomes([Now EXCEPT !.catchup[t] = @ - 1])
    BY <1>11 DEF CatchUpFires
  <2>2. [Now EXCEPT !.catchup[t] = @ - 1].runs = runs
    BY <1>1 DEF EngineStates
  <2> QED BY <1>3, <2>1, <2>2
<1>12. ASSUME NEW t \in Tasks, WindowCloses(t) PROVE NoMoreRuns(runs', runs)
  BY <1>2, <1>12 DEF WindowCloses, engine
<1>13. ASSUME NEW landed \in Landed, runs # <<>>, Becomes(Settle(Now, runs[1], landed))
       PROVE  NoMoreRuns(runs', runs)
  <2>1. Settle(Now, runs[1], landed).runs = Tail(runs)
    BY <1>1, <1>13, DisposedSettle
  <2>2. runs' = Tail(runs)
    BY <1>13, <2>1 DEF Becomes
  <2> QED BY <1>1, <1>13, <2>2, TailNoMore
<1>14. ASSUME DispatchStarts PROVE NoMoreRuns(runs', runs)
  <2>1. runs # <<>> /\ Becomes(Settle(Now, runs[1], None))
    BY <1>14 DEF DispatchStarts
  <2> QED BY <1>13, <2>1 DEF Landed
<1>15. ASSUME DispatchEnds PROVE NoMoreRuns(runs', runs)
  <2>1. PICK landed \in Landings(runs[1].task) : Becomes(Settle(Now, runs[1], landed))
    BY <1>15 DEF DispatchEnds
  <2>2. runs # <<>> /\ runs[1] \in RunRec
    BY <1>15, EmptySeq, LenProperties, ElementOfSeq DEF DispatchEnds, EngineInv, EngineTypeOK
  <2>3. landed \in Landed
    BY <2>2, LandingsType DEF RunRec
  <2> QED BY <1>13, <2>1, <2>2, <2>3
<1>16. ASSUME NEW s \in Sessions, LockTimesOut(s) PROVE NoMoreRuns(runs', runs)
  <2> DEFINE L == TimeoutFired(locks, s)
             E == [Now EXCEPT !.locks = L]
  <2>1. Becomes(HandleTimeout(E, locks.holder[s])) /\ s \in locks.armed
    BY <1>16 DEF LockTimesOut, Now
  <2>2. locks.holder[s] \in Tasks
    BY <2>1 DEF EngineInv, Coherent, Base, Shape
  <2>3. L \in Managers
    <3>1. Coherent(L, Rec)
      BY TimeoutFiredCoherent DEF EngineInv
    <3> HIDE DEF L
    <3> QED BY <3>1 DEF Managers, Coherent, Base
  <2> HIDE DEF L
  <2>4. E \in EngineStates /\ E.runs = runs
    BY <1>1, <2>3, SetLocks
  <2> HIDE DEF E
  <2>5. NoMoreRuns(HandleTimeout(E, locks.holder[s]).runs, runs)
    BY <2>2, <2>4, TimeoutNoMore
  <2>6. runs' = HandleTimeout(E, locks.holder[s]).runs
    BY <2>1 DEF Becomes
  <2> QED BY <2>5, <2>6
<1> QED BY <1>4, <1>5, <1>6, <1>7, <1>8, <1>9, <1>10, <1>11, <1>12, <1>14, <1>15, <1>16 DEF EngineNext

\* Once the engine is disposed of, whatever timers, catch-up, commands and ends of
\* dispatches still come, no run is added and none is given to the dispatcher.
THEOREM DisposeAlwaysStops == EngineSpec => DisposeStopsDispatch
<1>1. EngineInv /\ [EngineNext]_evars =>
        [disposed => /\ Len(runs') <= Len(runs)
                     /\ Cardinality({i \in DOMAIN runs' : runs'[i].started})
                          <= Cardinality({i \in DOMAIN runs : runs[i].started})]_evars
  BY DisposedStep DEF NoMoreRuns
<1> QED BY <1>1, EngineInvariant, PTL DEF EngineSpec, DisposeStopsDispatch
=============================================================================
