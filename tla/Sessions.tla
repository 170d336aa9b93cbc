------------------------------ MODULE Sessions ------------------------------
(***************************************************************************)
(* SessionManager (src/core/projection/session-manager.ts), the context a   *)
(* session shows (session-projection.ts), the index kept in SQLite          *)
(* (event-store/sqlite-session-store.ts), and those who move the active     *)
(* session: prompts, the commands of rpc-mode.ts and of the model's tools,  *)
(* scheduled dispatches, and the start of the process.                      *)
(*                                                                         *)
(* A session is a view of the log: the events of its thread between two      *)
(* boundaries.  One process runs; it may die in the middle of an operation.  *)
(* Left out: names, summaries and compaction boundaries, token budgets.     *)
(***************************************************************************)
EXTENDS Integers, Sequences, FiniteSets, SequencesExt, FiniteSetsExt

CONSTANTS
    MaxEvents,      \* bound on the log
    MaxSessions,    \* bound on the sessions
    MayClone        \* BOOLEAN: may a session of another workspace be forked here?

ASSUME SessionsAssumption ==
    MaxEvents \in Nat /\ MaxSessions \in Nat /\ MayClone \in BOOLEAN

VARIABLES
    log,        \* the event log
    mem,        \* the SessionManager; Down while no process runs
    saved,      \* the session index in the database
    turn        \* the prompt in progress, or Quiet

svars == <<log, mem, saved, turn>>

None == 0       \* no session, no thread, no event
ORIGIN == 0     \* a start before every event
HEAD == 0       \* the end of a session that is open

Types == {"message", "reply", "boundary", "split"}
EventAt == [type : Types, thread : Nat]     \* None: not tagged

SessionAt == [thread : Nat, start : Nat, end : Nat,
              ctx : Nat]                    \* context_parent_session_id

Index == [threads : Nat, sessions : Seq(SessionAt)]     \* ids in order of creation
Manager == [threads : Nat, sessions : Seq(SessionAt),
            thread : Nat, session : Nat]                \* the active ones
Down == [threads |-> 0, sessions |-> <<>>, thread |-> None, session |-> None]
Quiet == [kind |-> "none", session |-> None, previous |-> None, moved |-> FALSE, asked |-> FALSE]

-----------------------------------------------------------------------------
(* What a session shows (SessionProjection)                                *)

\* The range excludes both boundaries.
InRange(s, e) == s.start < e /\ (s.end # HEAD => e < s.end)

Shows(L, s, e) ==
    /\ L[e].type \in {"message", "reply"} /\ InRange(s, e)
    /\ L[e].thread \in {None, s.thread}

\* The members of E up to n, in their order.
Listed(E, n) ==
    LET listed[k \in 0 .. n] ==
            IF k = 0 THEN <<>>
            ELSE IF k \in E THEN Append(listed[k - 1], k) ELSE listed[k - 1]
    IN  listed[n]

Own(L, s) == Listed({e \in 1 .. Len(L) : Shows(L, s, e)}, Len(L))

\* buildContext: the context of the context parent, then the session's own events.
Context(L, sessions, id) ==
    LET context[i \in DOMAIN sessions] ==
            IF sessions[i].ctx = None THEN Own(L, sessions[i])
            ELSE context[sessions[i].ctx] \o Own(L, sessions[i])
    IN  context[id]

-----------------------------------------------------------------------------
(* The methods, on a record S of the log and the manager's maps            *)

Open(s) == s.end = HEAD
IsOpen(S, id) == id # None /\ Open(S.sessions[id])

Now == [log |-> log, threads |-> mem.threads, sessions |-> mem.sessions,
        thread |-> mem.thread, session |-> mem.session]

\* ThreadScopedStore: events carry the thread that is active when they are
\* appended; session boundaries name theirs.
Logged(S, type, thread) ==
    [S EXCEPT !.log = Append(@, [type |-> type, thread |-> thread])]

Head1(S) == Len(S.log)         \* store.head, or ORIGIN

CreateThreadRecord(S) == [S EXCEPT !.threads = @ + 1, !.thread = S.threads + 1]

\* Bug: the active thread is left as it was.
ActivateSession(S, id) == [S EXCEPT !.session = id]
Activate(S, id) == [S EXCEPT !.session = id, !.thread = S.sessions[id].thread]

\* Bug: the boundary is the head before the event that closes the session.
ClosedAtHead(S, id) ==
    IF IsOpen(S, id) THEN [S EXCEPT !.sessions[id].end = Head1(S) - 1] ELSE S

\* The session ends at the last event, unless it has already ended.
Close(S, id) == IF IsOpen(S, id) THEN [S EXCEPT !.sessions[id].end = Head1(S)] ELSE S

\* createSession: the active session ends if it is in the same thread.
CreateSession(S, thread, start, ctx, closeActive) ==
    LET T == IF thread # None THEN [S EXCEPT !.thread = thread]
             ELSE IF S.thread # None THEN S ELSE CreateThreadRecord(S)
        new == [thread |-> T.thread, start |-> start, end |-> HEAD, ctx |-> ctx]
        A == Activate([T EXCEPT !.sessions = Append(@, new)], Len(S.sessions) + 1)
        C == Logged(A, "boundary", new.thread)
    IN  IF closeActive /\ S.session # None /\ S.sessions[S.session].thread = new.thread
        THEN Close(C, S.session) ELSE C

CreateThread(S) ==
    LET T == CreateThreadRecord(S)
    IN  CreateSession(T, T.thread, Head1(S), None, TRUE)

GetActive(S) ==
    LET T == IF S.thread = None THEN CreateThread(S) ELSE S
    IN  IF T.session = None THEN CreateSession(T, T.thread, Head1(T), None, TRUE) ELSE T

\* switchToExistingSession
SwitchToExisting(S, id, closePrevious) ==
    LET J == Logged(Activate(S, id), "boundary", S.sessions[id].thread)
    IN  IF id = S.session /\ S.sessions[id].thread = S.thread THEN S
        ELSE IF /\ S.session \notin {None, id}
                /\ \/ closePrevious = "always"
                   \/ /\ closePrevious = "same-thread"
                      /\ S.sessions[S.session].thread = S.sessions[id].thread
             THEN Close(J, S.session) ELSE J

ForkAt(S, event) ==
    LET A == GetActive(S)
        new == [thread |-> A.sessions[A.session].thread, start |-> event, end |-> HEAD,
                ctx |-> None]
        F == Activate([A EXCEPT !.sessions = Append(@, new)], Len(A.sessions) + 1)
    IN  Close(Logged(F, "boundary", new.thread), A.session)

\* forkFromSession, up to the index that createSession saves.
ForkBegun(S, id, preserveHistory) ==
    LET s == S.sessions[id]
        F == IF Open(s) THEN Activate(S, id) ELSE S
        forkAt == IF Open(s) THEN Head1(S) ELSE s.end
    IN  CreateSession(F, s.thread, IF preserveHistory THEN s.start ELSE forkAt, None, TRUE)

\* ... and the rest: the session that was active ends, of whatever thread.
ForkFrom(S, id, preserveHistory) ==
    LET B == ForkBegun(S, id, preserveHistory)
        F == Logged(B, "boundary", S.sessions[id].thread)
    IN  IF S.session # id THEN Close(F, S.session) ELSE F

\* The newest open continuation of a session.
Continuation(S, id) ==
    Max({None} \cup {i \in DOMAIN S.sessions : S.sessions[i].ctx = id /\ Open(S.sessions[i])})

\* Bug: the continuation starts empty.
WritableEmpty(S) ==
    IF S.session = None \/ IsOpen(S, S.session) THEN S
    ELSE LET T == CreateThreadRecord(S)
         IN  Logged(CreateSession(T, T.thread, Head1(S), None, FALSE), "boundary", T.thread)

\* ensureActiveSessionWritable, up to the index that createSession or a switch saves.
Ended(S) == S.session # None /\ ~IsOpen(S, S.session)
WritableBegun(S) ==
    IF ~Ended(S) THEN S
    ELSE IF Continuation(S, S.session) # None
         THEN SwitchToExisting(S, Continuation(S, S.session), "never")
         ELSE LET T == CreateThreadRecord(S)
              IN  CreateSession(T, T.thread, Head1(T), S.session, FALSE)

\* ... and the rest: the event that tells of a new continuation.
Writable(S) ==
    LET B == WritableBegun(S)
    IN  IF Ended(S) /\ Continuation(S, S.session) = None THEN Logged(B, "boundary", B.thread) ELSE B

\* resolveSwitchTargetSession
SwitchTarget(S, id) ==
    IF IsOpen(S, id) \/ Continuation(S, id) = None THEN id ELSE Continuation(S, id)

\* jumpToSession
Jump(S, id) ==
    IF IsOpen(S, id) THEN SwitchToExisting(S, id, "same-thread")
    ELSE LET F == ForkFrom(S, id, TRUE) IN Logged(F, "boundary", F.thread)

\* splitSession: the new session starts just before the latest message, once a turn.
AlreadySplit(S) ==
    \E e \in DOMAIN S.log : /\ S.log[e].type = "split"
                            /\ \A m \in DOMAIN S.log : S.log[m].type = "message" => m < e

Split(S) ==
    LET messages == {e \in DOMAIN S.log : S.log[e].type = "message"}
        start == IF messages = {} THEN Head1(S) ELSE Max(messages) - 1
        C == CreateSession(S, None, start, None, TRUE)
    IN  Logged(C, "split", C.thread)

-----------------------------------------------------------------------------
(* Steps.  A step appends events and saves the index on its way; `saves' is  *)
(* the state at each save, S the state at its end.  The process may die      *)
(* after any of its writes, and between the steps.                           *)

IndexOf(S) == [threads |-> S.threads, sessions |-> S.sessions]
ManagerOf(S) == [threads |-> S.threads, sessions |-> S.sessions,
                 thread |-> S.thread, session |-> S.session]

\* A USER_MESSAGE goes to the active thread.
Asked(S) == Logged(S, "message", S.thread)

Fits(S) == Len(S.log) <= MaxEvents /\ Len(S.sessions) <= MaxSessions

IndexSaved(saves) == IF saves = <<>> THEN saved ELSE IndexOf(Last(saves))

Dies(saves, S) ==
    \E k \in 0 .. Len(saves) :
        \E n \in (IF k = 0 THEN Len(log) ELSE Len(saves[k].log)) ..
                 (IF k = Len(saves) THEN Len(S.log) ELSE Len(saves[k + 1].log)) :
            /\ k > 0 \/ n > Len(log)
            /\ log' = SubSeq(S.log, 1, n)
            /\ saved' = IF k = 0 THEN saved ELSE IndexOf(saves[k])
            /\ mem' = Down
            /\ turn' = Quiet

\* (Bound: the message of a turn still fits.)
Does(saves, S, T) ==
    /\ Fits(IF T = Quiet \/ T.asked THEN S ELSE Asked(S))
    /\ \/ /\ log' = S.log /\ mem' = ManagerOf(S)
          /\ saved' = IndexSaved(saves)
          /\ turn' = T
       \/ Dies(saves, S)

Up == mem # Down
Killed == mem' = Down /\ turn' = Quiet /\ UNCHANGED <<log, saved>>

Ids == IF Up THEN DOMAIN mem.sessions ELSE {}

-----------------------------------------------------------------------------
(* Commands that move the active session, by the user or a tool of the model *)

Moved(S) == S.sessions # mem.sessions \/ S.session # mem.session
Moves(saves, S) ==
    Does(saves, S, IF turn = Quiet \/ ~Moved(S) THEN turn
                   ELSE [turn EXCEPT !.moved = TRUE, !.session = None])

\* switch_session; history_tree switch; the switch of the terminal UI.
SwitchSession(id) ==
    LET S == SwitchToExisting(Now, id, "same-thread") IN Moves(<<S>>, S)
HistorySwitch(id) ==
    LET S == SwitchToExisting(Now, SwitchTarget(Now, id), "same-thread") IN Moves(<<S>>, S)
SwitchTo(id) == LET S == Activate(Now, id) IN Moves(<<S>>, S)

HistoryJump(id) ==
    IF IsOpen(Now, id) THEN LET S == Jump(Now, id) IN Moves(<<S>>, S)
    ELSE Moves(<<ForkBegun(Now, id, TRUE), ForkFrom(Now, id, TRUE)>>, Jump(Now, id))
HistoryFork(id) ==
    Moves(<<ForkBegun(Now, id, FALSE), ForkFrom(Now, id, FALSE)>>, ForkFrom(Now, id, FALSE))

\* rewind, fork and clone.
Rewind(event) == LET S == ForkAt(Now, event) IN Moves(<<S>>, S)

NewSession ==
    LET S == CreateSession(Now, None, Head1(Now), None, TRUE) IN Moves(<<S>>, S)

\* A tool call of the turn in progress.
SplitSession ==
    /\ turn.asked /\ ~AlreadySplit(Now)
    /\ LET S == Split(Now)
       IN  Moves(<<CreateSession(Now, None, S.sessions[S.session].start, None, TRUE)>>, S)

-----------------------------------------------------------------------------
(* Prompts and scheduled dispatches                                        *)

Turn(kind, S, previous) ==
    [kind |-> kind, session |-> S.session, previous |-> previous, moved |-> FALSE, asked |-> FALSE]

\* prompt() makes the active session writable, and awaits the start of the reactor;
\* a prompt during another one throws.  A task that runs in the current session does
\* the same.
Prompt ==
    /\ turn = Quiet
    /\ LET W == Writable(Now) IN Does(<<WritableBegun(Now), W>>, W, Turn("user", W, None))

\* Then it appends the message: to the session that is active by now.
Ask ==
    /\ turn # Quiet /\ ~turn.asked
    /\ Does(<<>>, Asked(Now), [turn EXCEPT !.asked = TRUE])

\* A message without a prompt: a steer while idle, a follow-up drained by a turn.
Message == Does(<<>>, Asked(Now), turn)

\* Where the dispatcher goes before the prompt, and back.
Target(kind, id) ==
    IF kind = "new" THEN CreateThread(Now) ELSE SwitchToExisting(Now, id, "never")

\* Bug: the dispatcher leaves the task's session active.
NotRestored(S, kind, previous) == S
Restored(S, kind, previous) ==
    IF kind \in {"new", "pinned"} /\ previous # None
    THEN SwitchToExisting(S, previous, IF kind = "new" THEN "always" ELSE "never")
    ELSE S

\* dispatch() to a session of its own: while another prompt is in progress its own
\* throws at once.
Dispatch(kind, id) ==
    LET S == Target(kind, id)
        W == Writable(S)
        R == Restored(S, kind, mem.session)
    IN  IF turn = Quiet
        THEN Does(<<S, WritableBegun(S), W>>, W, Turn(kind, W, mem.session))
        ELSE Does(<<S, R>>, R, turn)

\* The turn ends, with an answer or (aborted, failed) without.
TurnEnds ==
    /\ turn # Quiet
    /\ \E answered \in {FALSE, turn.asked} :
          LET S == IF answered THEN Logged(Now, "reply", mem.thread) ELSE Now
              R == Restored(S, turn.kind, turn.previous)
          IN  Does(<<R>>, R, Quiet)

-----------------------------------------------------------------------------
(* Start: createSessionFacade                                              *)

\* _loadIndex: threads are never closed, so the last one is the active one.
Loaded ==
    LET open == {i \in DOMAIN saved.sessions :
                    saved.sessions[i].thread = saved.threads /\ Open(saved.sessions[i])}
    IN  [log |-> log, threads |-> saved.threads, sessions |-> saved.sessions,
         thread |-> saved.threads, session |-> Max({None} \cup open)]

Begins(saves, S) ==
    LET A == GetActive(S)
    IN  Does(Append(saves, A), A, Quiet)

StartPlain == Begins(<<>>, Loaded)
StartIn(id) == LET S == Activate(Loaded, id) IN Begins(<<S>>, S)
StartFork(id) ==
    Begins(<<ForkBegun(Loaded, id, TRUE), ForkFrom(Loaded, id, TRUE)>>, ForkFrom(Loaded, id, TRUE))

\* prepareForkedSession: the events of another workspace are appended to the
\* store itself, without a thread.  (Bound: once.)
StartClone ==
    LET C == CreateSession(Loaded, None, Head1(Loaded), None, TRUE)
        S == Logged(Logged(Logged(C, "boundary", C.thread), "message", None), "reply", None)
    IN  MayClone /\ (\A e \in DOMAIN log : log[e].thread # None) /\ Begins(<<C>>, S)

-----------------------------------------------------------------------------
SessionsInit ==
    /\ log = <<>>
    /\ mem = Down
    /\ saved = [threads |-> 0, sessions |-> <<>>]
    /\ turn = Quiet

Starts ==
    /\ ~Up
    /\ \/ StartPlain \/ StartClone
       \/ \E id \in DOMAIN saved.sessions : StartIn(id) \/ StartFork(id)

\* (Bound: the user moves once in a turn.)
Commands ==
    \/ /\ ~turn.moved
       /\ \/ \E id \in Ids :
                \/ SwitchSession(id) \/ HistorySwitch(id) \/ SwitchTo(id)
                \/ HistoryJump(id) \/ HistoryFork(id)
          \/ \E event \in DOMAIN log : Rewind(event)
          \/ NewSession
    \/ SplitSession

Dispatches ==
    \/ Dispatch("new", None)
    \/ \E id \in Ids : Dispatch("pinned", id)

SessionsNext ==
    \/ Starts
    \/ Up /\ (Commands \/ Prompt \/ Ask \/ Message \/ Dispatches \/ TurnEnds \/ Killed)

SessionsSpec == SessionsInit /\ [][SessionsNext]_svars

-----------------------------------------------------------------------------
(* Properties                                                              *)

SessionsTypeOK ==
    /\ log \in Seq(EventAt)
    /\ mem \in Manager
    /\ saved \in Index
    /\ turn \in [kind : {"none", "user", "new", "pinned"}, session : Nat,
                 previous : Nat, moved : BOOLEAN, asked : BOOLEAN]

\* The index, in memory and as a restart would find it, is sound: boundaries are
\* events of the log in order, a continuation belongs to an earlier session that
\* has ended, and the active session is in the active thread (_loadIndex,
\* _persistIndex).
SoundIndex(threads, sessions) ==
    \A i \in DOMAIN sessions :
        LET s == sessions[i]
        IN  /\ s.thread \in 1 .. threads
            /\ {s.start, s.end} \subseteq 0 .. Len(log)
            /\ ~Open(s) => s.start < s.end
            /\ s.ctx # None => s.ctx < i /\ ~Open(sessions[s.ctx])
BoundariesSound ==
    /\ SoundIndex(saved.threads, saved.sessions)
    /\ Up => /\ SoundIndex(mem.threads, mem.sessions)
             /\ mem.sessions[mem.session].thread = mem.thread

\* At rest the database holds what memory does: no change waits for a later save.
IndexCurrent == Up => saved = IndexOf(mem)

\* What a session shows never shrinks or changes, and once the session has ended
\* it stays as it is, whatever the user, the model and scheduled tasks do, and
\* over restarts.
ContextGrown ==
    saved' # saved \/ log' # log =>
        \A i \in DOMAIN saved.sessions :
            LET before == Context(log, saved.sessions, i)
                after == Context(log', saved'.sessions, i)
            IN  /\ IsPrefix(before, after)
                /\ ~Open(saved.sessions[i]) => after = before
ContextsOnlyGrow == [][ContextGrown]_svars

\* The session a prompt chooses is open and shows first what the active one showed
\* before, even one that had ended (ensureActiveSessionWritable).
ChoiceKeepsHistory ==
    turn = Quiet /\ turn'.kind = "user" =>
        /\ mem'.session = turn'.session /\ Open(mem'.sessions[mem'.session])
        /\ IsPrefix(Context(log, mem.sessions, mem.session), Context(log', mem'.sessions, mem'.session))

\* It is still the one, and open, when the message is appended, unless somebody moved
\* to another between; the message then is the last of what the active session shows,
\* after all it showed before, unless that one had ended.
MessageKeepsHistory ==
    ~turn.asked /\ turn'.asked =>
        /\ ~turn.moved => mem.session = turn.session /\ Open(mem.sessions[mem.session])
        /\ Open(mem.sessions[mem.session]) =>
              LET after == Context(log', mem'.sessions, mem'.session)
              IN  /\ IsPrefix(Context(log, mem.sessions, mem.session), after)
                  /\ Last(after) = Len(log')

\* So the answer to a prompt is computed from the history the user saw.
PromptKeepsHistory == [][ChoiceKeepsHistory /\ MessageKeepsHistory]_svars

\* A turn during which nobody moves the active session is answered where it was
\* asked, and a scheduled one leaves the active session as it found it.
UndisturbedTurn ==
    turn # Quiet /\ turn' = Quiet /\ mem' # Down /\ ~turn.moved =>
        /\ \A e \in (Len(log) + 1) .. Len(log') : log'[e].type = "reply" =>
              Last(Context(log', mem'.sessions, turn.session)) = e
        /\ turn.previous # None => mem'.session = turn.previous

\* A dispatch that finds a prompt in progress has no effect on it.
DispatchKeepsTurn ==
    turn # Quiet /\ turn' = turn /\ ~turn.moved /\ Up => mem'.session = mem.session

\* The shape of the state, and the soundness of the index in memory and saved, which
\* at rest are the same.
SessionsSound == SessionsTypeOK /\ BoundariesSound /\ IndexCurrent

\* What a turn does to the active session when nothing, and when only a busy
\* dispatch, comes between: the reply is where the prompt was, the user's session
\* is active again after a scheduled turn and was never left during their own.
TurnsUndisturbed == [][UndisturbedTurn /\ DispatchKeepsTurn]_svars
=============================================================================
