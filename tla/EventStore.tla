----------------------------- MODULE EventStore -----------------------------
(***************************************************************************)
(* SqliteEventStore (src/core/event-store/sqlite-store.ts): the events      *)
(* table of a workspace, opened by several processes, and the subscribers   *)
(* of each.  A process is single-threaded but its calls nest: append() tells *)
(* its subscribers before it returns, and a subscriber may append, subscribe,*)
(* unsubscribe or throw.  Another process may write between any two          *)
(* statements, and a process may die between them.                           *)
(*                                                                         *)
(* Left out: payloads, meta.json, filters of subscriptions, queries.        *)
(***************************************************************************)
EXTENDS Integers, Sequences, FiniteSets, FiniteSetsExt

CONSTANTS
    Processes,
    Keys, NoKey,    \* idempotency keys of appended events
    MaxMade,        \* bound on the events each process makes
    MaxSubs         \* bound on the subscriptions each process takes out

ASSUME EventStoreAssumption ==
    NoKey \notin Keys /\ MaxMade \in [Processes -> Nat] /\ MaxSubs \in [Processes -> Nat]

VARIABLES
    rows,       \* the events table
    proc,       \* the store object of each process
    told,       \* history: what each subscription was told, in order
    fails,      \* history: appends of each process that met a taken sequence number
    foreign     \* history: rows others have inserted since the process opened the store

evars == <<rows, proc, told, fails, foreign>>

Subs == UNION {1 .. MaxSubs[p] : p \in Processes}

Event == [by : Processes, n : Nat, seq : Nat, key : Keys \cup {NoKey},
          chunk : BOOLEAN, first : Nat, size : Nat,    \* the batch it belongs to, by its numbers n
          audience : SUBSET Subs]   \* history: who had subscribed when it was made

\* One call in progress: the events it has made, and whom it has told of which.
Call == [events : Seq(Event), inserted : BOOLEAN,
         at : Nat \ {0},            \* events[at] is being told;
         last : Nat]                \* the handler of this subscription runs, or has run

Process ==
    [open : BOOLEAN,
     next : Nat,                    \* _nextSequence
     subs : SUBSET Subs,            \* subscribers, told in the order of their numbers
     taken : Nat,                 \* nextSubId
     calls : Seq(Call),             \* the innermost first
     made : Nat,
     born : Nat,                    \* history: events made before the store was opened
     cut : BOOLEAN]                 \* history: a handler has thrown out of a call

Closed(made) == [open |-> FALSE, next |-> 0, subs |-> {}, taken |-> 0, calls |-> <<>>,
                 made |-> made, born |-> made, cut |-> FALSE]

MaxSeq == Max({0} \cup {r.seq : r \in rows})

Set(p, P) == proc' = [proc EXCEPT ![p] = P]

\* Code of process p other than the store runs: its own, or a handler's.
Runs(p) == /\ proc[p].open
           /\ proc[p].calls # <<>> => Head(proc[p].calls).last # 0

Top(p) == Head(proc[p].calls)
Replace(P, call) == [P EXCEPT !.calls = <<call>> \o Tail(@)]
Return(P) == [P EXCEPT !.calls = Tail(@)]
Push(P, call) == [P EXCEPT !.calls = <<call>> \o @]

-----------------------------------------------------------------------------
(* Opening and closing                                                     *)

NextAtOpen == MaxSeq + 1

Open(p) ==
    /\ ~proc[p].open
    /\ Set(p, [proc[p] EXCEPT !.open = TRUE, !.next = NextAtOpen])
    /\ UNCHANGED <<rows, told, fails, foreign>>

\* The process ends or dies, between any two steps.  (Bound: not in the
\* middle of telling its last event.)
Die(p) ==
    /\ proc[p].open
    /\ proc[p].calls # <<>> /\ Top(p).inserted => proc[p].made < MaxMade[p]
    /\ Set(p, Closed(proc[p].made))
    /\ told' = [told EXCEPT ![p] = [s \in Subs |-> <<>>]]
    /\ fails' = [fails EXCEPT ![p] = 0] /\ foreign' = [foreign EXCEPT ![p] = 0]
    /\ UNCHANGED rows

\* (Bound: not after the last event.)
Subscribe(p) ==
    /\ Runs(p) /\ proc[p].taken < MaxSubs[p] /\ proc[p].made < MaxMade[p]
    /\ Set(p, [proc[p] EXCEPT !.taken = @ + 1, !.subs = @ \cup {proc[p].taken + 1}])
    /\ UNCHANGED <<rows, told, fails, foreign>>

Unsubscribe(p, s) ==
    /\ Runs(p) /\ s \in proc[p].subs
    /\ Set(p, [proc[p] EXCEPT !.subs = @ \ {s}])
    /\ told' = [told EXCEPT ![p][s] = <<>>]
    /\ UNCHANGED <<rows, fails, foreign>>

-----------------------------------------------------------------------------
(* append, appendBatch                                                     *)

Known(key) == key # NoKey /\ \E r \in rows : r.key = key

\* _normalizeEvent: the number is used up, whatever becomes of the event.
Normalized(p, keys, chunk) ==
    [i \in 1 .. Len(keys) |->
        [by |-> p, n |-> proc[p].made + i, seq |-> proc[p].next + i - 1, key |-> keys[i],
         chunk |-> chunk, first |-> proc[p].made + 1, size |-> Len(keys),
         audience |-> proc[p].subs]]

Numbered(P, k) == [P EXCEPT !.next = @ + k, !.made = @ + k]

NewCall(events, inserted) ==
    [events |-> events, inserted |-> inserted, at |-> 1, last |-> 0]

\* A key that is already there returns its event; a chunk is not inserted.
Append1(p, key, chunk) ==
    /\ Runs(p) /\ ~Known(key) /\ proc[p].made < MaxMade[p]
    /\ chunk => key = NoKey
    /\ Set(p, Push(Numbered(proc[p], 1),
                   NewCall(Normalized(p, <<key>>, chunk), chunk)))
    /\ UNCHANGED <<rows, told, fails, foreign>>

\* (Bound: of at most two events.)
Batches == {<<k>> : k \in Keys \cup {NoKey}} \cup (Keys \cup {NoKey}) \X (Keys \cup {NoKey})

\* The keys are of the events of the batch that are not there yet.  Used only
\* while a forked session is prepared, before anybody subscribes.
AppendBatch(p, keys) ==
    /\ Runs(p) /\ proc[p].calls = <<>> /\ proc[p].subs = {}
    /\ \A i \in DOMAIN keys : ~Known(keys[i])
    /\ proc[p].made + Len(keys) <= MaxMade[p]
    /\ Set(p, Push(Numbered(proc[p], Len(keys)),
                   NewCall(Normalized(p, keys, FALSE), FALSE)))
    /\ UNCHANGED <<rows, told, fails, foreign>>

\* The unique indexes on sequence and on idempotency key.
Clash(e, f) == e.seq = f.seq \/ (e.key # NoKey /\ e.key = f.key)

\* Bug: a batch without begin and commit keeps what preceded the clash.
InsertedOneByOne(events) ==
    {events[i] : i \in {i \in DOMAIN events :
        \A j \in 1 .. i : /\ \A r \in rows : ~Clash(events[j], r)
                          /\ \A k \in 1 .. j - 1 : ~Clash(events[j], events[k])}}

\* All or none: the insert of an append, the transaction of a batch.
Inserted(events) ==
    IF \E i \in DOMAIN events : \/ \E r \in rows : Clash(events[i], r)
                                \/ \E j \in 1 .. i - 1 : Clash(events[i], events[j])
    THEN {}
    ELSE {events[i] : i \in DOMAIN events}

Insert(p) ==
    /\ proc[p].open /\ proc[p].calls # <<>> /\ ~Top(p).inserted
    /\ LET events == Top(p).events
           new == Inserted(events)
           taken == \E i \in DOMAIN events : \E r \in rows : events[i].seq = r.seq
       IN  /\ rows' = rows \cup new
           /\ Set(p, IF Cardinality(new) = Len(events)
                     THEN Replace(proc[p], [Top(p) EXCEPT !.inserted = TRUE])
                     ELSE Return(proc[p]))      \* it throws, to the code that runs
           /\ fails' = IF taken THEN [fails EXCEPT ![p] = @ + 1] ELSE fails
           /\ foreign' = [q \in Processes |->
                 IF q # p /\ proc[q].open THEN foreign[q] + Cardinality(new) ELSE foreign[q]]
    /\ UNCHANGED told

-----------------------------------------------------------------------------
(* _notify: the loop visits subscriptions taken out while it runs.         *)

\* Bug: a subscription taken out while the event is told hides the others.
UntoldNew(p, call) == {s \in proc[p].subs : s > call.last /\ s = proc[p].taken}
Untold(p, call) == {s \in proc[p].subs : s > call.last}

Tell(p) ==
    /\ proc[p].open /\ proc[p].calls # <<>> /\ Top(p).inserted
    /\ Untold(p, Top(p)) # {}
    /\ LET s == Min(Untold(p, Top(p)))
       IN  /\ Set(p, Replace(proc[p], [Top(p) EXCEPT !.last = s]))
           /\ told' = [told EXCEPT ![p][s] = Append(@, Top(p).events[Top(p).at])]
    /\ UNCHANGED <<rows, fails, foreign>>

\* The exception leaves _notify and append; the handler around them may catch it.
HandlerThrows(p) ==
    /\ proc[p].open /\ proc[p].calls # <<>> /\ Top(p).last # 0
    /\ Set(p, [Return(proc[p]) EXCEPT !.cut = TRUE])
    /\ UNCHANGED <<rows, told, fails, foreign>>

\* Everybody has been told of an event: the next of a batch, or the call returns.
AllTold(p) ==
    /\ proc[p].open /\ proc[p].calls # <<>> /\ Top(p).inserted
    /\ Untold(p, Top(p)) = {}
    /\ Set(p, IF Top(p).at < Len(Top(p).events)
              THEN Replace(proc[p], [Top(p) EXCEPT !.at = @ + 1, !.last = 0])
              ELSE Return(proc[p]))
    /\ UNCHANGED <<rows, told, fails, foreign>>

-----------------------------------------------------------------------------
EventStoreInit ==
    /\ rows = {}
    /\ proc = [p \in Processes |-> Closed(0)]
    /\ told = [p \in Processes |-> [s \in Subs |-> <<>>]]
    /\ fails = [p \in Processes |-> 0] /\ foreign = [p \in Processes |-> 0]

EventStoreNext ==
    \E p \in Processes :
        \/ Open(p) \/ Die(p) \/ Subscribe(p)
        \/ \E s \in Subs : Unsubscribe(p, s)
        \/ \E key \in Keys \cup {NoKey}, chunk \in BOOLEAN : Append1(p, key, chunk)
        \/ \E keys \in Batches : AppendBatch(p, keys)
        \/ Insert(p) \/ Tell(p) \/ HandlerThrows(p) \/ AllTold(p)

EventStoreSpec == EventStoreInit /\ [][EventStoreNext]_evars

-----------------------------------------------------------------------------
(* Properties                                                              *)

EventStoreTypeOK ==
    /\ rows \subseteq Event
    /\ proc \in [Processes -> Process]
    /\ told \in [Processes -> [Subs -> Seq(Event)]]
    /\ fails \in [Processes -> Nat] /\ foreign \in [Processes -> Nat]

\* What a process appends later comes later in the log, over its restarts and
\* whatever numbers other processes have used (_nextSequence, _dbMaxSequence).
OwnOrder == \A e, f \in rows : e.by = f.by /\ e.n < f.n => e.seq < f.seq

\* Nobody is told of an event that a failed insert or a rollback has undone: the
\* reactor acts on what it is told (append, appendBatch).
ToldIsLogged ==
    \A p \in Processes, s \in Subs : \A e \in {told[p][s][i] : i \in DOMAIN told[p][s]} :
        e.chunk \/ e \in rows

\* A batch is in the log as a whole or not at all, although another process
\* writes between its lookups and its inserts (appendBatch).
BatchWhole ==
    \A r \in rows : \A n \in r.first .. r.first + r.size - 1 :
        \E e \in rows : e.by = r.by /\ e.n = n

\* The subscriber of longest standing hears events once and in the order of the
\* log, although handlers append while they are told (_notify).  Those after it
\* hear an event appended by a handler before the event that caused it.
EldestHearsInOrder ==
    \A p \in Processes : proc[p].open /\ proc[p].subs # {} =>
        LET heard == told[p][Min(proc[p].subs)]
        IN  Min(proc[p].subs) = 1 =>
                \A i, j \in DOMAIN heard : i < j => heard[i].seq < heard[j].seq

\* Once a process has returned from all its calls, whoever had subscribed when an
\* event was made has heard of it, unless a handler threw in between (_notify).
EveryoneTold ==
    \A p \in Processes : proc[p].open /\ proc[p].calls = <<>> /\ ~proc[p].cut =>
        \A s \in proc[p].subs : \A r \in rows :
            r.by = p /\ r.n > proc[p].born /\ s \in r.audience => \E i \in DOMAIN told[p][s] : told[p][s][i] = r

\* A stale copy of the sequence costs at most one failed append for each row
\* another process has inserted (_normalizeEvent, before _insert).
StaleCatchesUp == \A p \in Processes : fails[p] <= foreign[p]

\* A row never comes before rows already there.
AppendOnly == [][\A e \in rows' \ rows : \A r \in rows : r.seq < e.seq]_evars

\* What subscribers hear, nested notifications and throwing handlers included:
\* only what is in the log, the eldest in its order, and everyone all of it.
Told == ToldIsLogged /\ EldestHearsInOrder /\ EveryoneTold

\* The log that processes and restarts share: each process's events in the order
\* it made them, batches whole, no process kept out by its stale sequence, and
\* its subscribers told.
LogSound == OwnOrder /\ BatchWhole /\ StaleCatchesUp /\ Told
=============================================================================
