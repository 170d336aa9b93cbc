------------------------------ MODULE Sidecars ------------------------------
(***************************************************************************)
(* The sidecars of the desktop application (apps/desktop/src/bridge.rs):    *)
(* one rpc process per working directory, shared by the windows, started by *)
(* init_sidecar and by the guard that keeps scheduled workspaces running,   *)
(* ended by restarts, closed windows and deleted workspaces; and what each  *)
(* window (apps/web/src/App.tsx) believes of it.                            *)
(*                                                                         *)
(* A step is one section under a lock.  The mutex of the map is held while  *)
(* a reader waits for the process it has removed.                           *)
(***************************************************************************)
EXTENDS Integers, Sequences

CONSTANTS
    Windows, Cwds,
    NoCwd,               \* not a working directory
    Chat,                \* ~/.yue/main, which the guard leaves to the windows
    MaxSpawns,           \* bound: processes started
    MaxEvents            \* bound: what users do, and crashes

ASSUME SidecarsAssumption ==
    NoCwd \notin Cwds /\ MaxSpawns \in Nat \ {0} /\ MaxEvents \in Nat

VARIABLES
    sidecars,            \* BridgeState: the process of each cwd, 0 for none,
    active,              \*     the cwd each window's commands go to,
    restarting,          \*     the cwds being restarted
    procs,               \* the processes, in the order they were started
    request,                \* the init_sidecar or restart_sidecar of each window
    closing,             \* kill_sidecar_for_window
    guard,               \* the process the guard has started and not yet inserted
    scheduled,           \* the workspaces with a runnable enabled task
    gui,                 \* React state of each window
    happened               \* what users and crashes have done

sidecarVars == <<sidecars, active, restarting, procs, request, closing, guard, scheduled, gui, happened>>

-----------------------------------------------------------------------------
Procs == DOMAIN procs
Dead(p) == procs[p].run = "dead"

\* reaps: the process a reader has removed and waits for.
Proc == [cwd : Cwds, run : {"up", "dead"}, stdin : BOOLEAN, guarded : BOOLEAN,
         reader : {"none", "reading", "telling", "over"}, reaps : 0 .. MaxSpawns]

NewProc(c, guarded) == [cwd |-> c, run |-> "up", stdin |-> TRUE, guarded |-> guarded,
                        reader |-> "none", reaps |-> 0]

NoRequest == [step |-> "idle", cwd |-> NoCwd, proc |-> 0, restart |-> FALSE]
NotClosing == [step |-> "open", cwd |-> NoCwd]

\* unaware: its sidecar has gone and nobody will tell it so.
Window == [shows : Cwds \cup {NoCwd}, ready : BOOLEAN, hears : BOOLEAN, unaware : BOOLEAN,
           strayed : BOOLEAN]

\* The mutex of the map is free.
Unlocked == \A p \in Procs : procs[p].reaps = 0

\* ChildStdin dropped: the process reads the end of its input.
Dropped(P, p) == IF p = 0 THEN P ELSE [P EXCEPT ![p].stdin = FALSE]
Killed(P, p) == IF p = 0 THEN P ELSE [P EXCEPT ![p].stdin = FALSE, ![p].run = "dead"]
Reading(P, p) == [P EXCEPT ![p].reader = "reading"]

-----------------------------------------------------------------------------
(* The window's side of a call: startWithWorkspace and its effects          *)

Happens == happened < MaxEvents /\ happened' = happened + 1

MayCall(w) == request[w].step = "idle" /\ closing[w].step = "open"

\* The effect subscribes anew when ready or the workspace has changed.
Started(G, c) ==
    [shows |-> c, ready |-> TRUE, hears |-> G.hears /\ G.ready /\ G.shows = c,
     unaware |-> FALSE, strayed |-> FALSE]

\* restartSidecar leaves the window's state alone; its error is shown.
Succeeds(w) ==
    /\ request' = [request EXCEPT ![w] = NoRequest]
    /\ restarting' = IF request[w].restart THEN restarting \ {request[w].cwd} ELSE restarting
    /\ gui' = IF request[w].restart THEN [gui EXCEPT ![w].unaware = FALSE, ![w].strayed = FALSE]
              ELSE [gui EXCEPT ![w] = Started(@, request[w].cwd)]

\* strayed: the bridge had already switched.
Fails(w) ==
    /\ request' = [request EXCEPT ![w] = NoRequest]
    /\ restarting' = IF request[w].restart THEN restarting \ {request[w].cwd} ELSE restarting
    /\ gui' = [gui EXCEPT ![w].unaware = @ \/ request[w].restart,
                          ![w].strayed = @ \/ (request[w].step = "joins" /\ active[w] # gui[w].shows)]

\* subscribeSidecarExit
Listens(w) ==
    /\ gui[w].ready /\ ~gui[w].hears /\ closing[w].step = "open"
    /\ gui' = [gui EXCEPT ![w].hears = TRUE]
    /\ UNCHANGED <<sidecars, active, restarting, procs, request, closing, guard, scheduled, happened>>

-----------------------------------------------------------------------------
(* init_sidecar and restart_sidecar                                        *)

Advances(w, step) == request' = [request EXCEPT ![w].step = step]

\* The user selects a workspace, or the timer of the automatic restart fires.
CallInit(w, c) ==
    /\ Happens /\ MayCall(w) /\ ~(gui[w].shows = c /\ gui[w].ready)
    /\ request' = [request EXCEPT ![w] = [NoRequest EXCEPT !.step = "checks", !.cwd = c]]
    /\ UNCHANGED <<sidecars, active, restarting, procs, closing, guard, scheduled, gui>>

CallRestart(w) ==
    /\ Happens /\ MayCall(w) /\ gui[w].shows # NoCwd
    /\ request' = [request EXCEPT ![w] = [step |-> "reaps", cwd |-> gui[w].shows, proc |-> 0, restart |-> TRUE]]
    /\ restarting' = restarting \cup {gui[w].shows}
    /\ UNCHANGED <<sidecars, active, procs, closing, guard, scheduled, gui>>

\* Remove, close, kill and wait, under the mutex.
RestartReaps(w) ==
    LET c == request[w].cwd
    IN  /\ request[w].step = "reaps" /\ Unlocked
        /\ procs' = Killed(procs, sidecars[c])
        /\ sidecars' = [sidecars EXCEPT ![c] = 0]
        /\ Advances(w, "checks")
        /\ UNCHANGED <<active, restarting, closing, guard, scheduled, gui, happened>>

\* The test and, for want of a sidecar, the new process, which is not in the map.
InitChecks(w) ==
    LET c == request[w].cwd
    IN  /\ request[w].step = "checks" /\ Unlocked
        /\ \/ /\ sidecars[c] # 0
              /\ active' = [active EXCEPT ![w] = c]
              /\ Advances(w, "joins")
              /\ UNCHANGED procs
           \/ /\ sidecars[c] = 0 /\ Len(procs) < MaxSpawns
              /\ procs' = Append(procs, NewProc(c, FALSE))
              /\ request' = [request EXCEPT ![w].step = "asks", ![w].proc = Len(procs) + 1]
              /\ UNCHANGED active
        /\ UNCHANGED <<sidecars, restarting, closing, guard, scheduled, gui, happened>>

\* get_state to the one found before: it may be gone, or its pipe broken.
InitJoins(w) ==
    LET p == sidecars[request[w].cwd]
    IN  /\ request[w].step = "joins" /\ Unlocked
        /\ IF p # 0 /\ ~Dead(p) THEN Succeeds(w) ELSE Fails(w)
        /\ UNCHANGED <<sidecars, active, procs, closing, guard, scheduled, happened>>

\* The first line of the new process, or the end of its output.
InitAsks(w) ==
    /\ request[w].step = "asks"
    /\ \/ Dead(request[w].proc) /\ Fails(w)
       \/ ~Dead(request[w].proc) /\ Advances(w, "inserts") /\ UNCHANGED <<restarting, gui>>
    /\ UNCHANGED <<sidecars, active, procs, closing, guard, scheduled, happened>>

\* Bug: whoever was in the map is left with its input open.
EnteredBeside(p) == procs
Entered(p) == Dropped(procs, sidecars[procs[p].cwd])

InitInserts(w) ==
    LET p == request[w].proc
    IN  /\ request[w].step = "inserts" /\ Unlocked
        /\ procs' = Entered(p)
        /\ sidecars' = [sidecars EXCEPT ![request[w].cwd] = p]
        /\ Advances(w, "activates")
        /\ UNCHANGED <<active, restarting, closing, guard, scheduled, gui, happened>>

InitActivates(w) ==
    /\ request[w].step = "activates"
    /\ active' = [active EXCEPT ![w] = request[w].cwd]
    /\ procs' = Reading(procs, request[w].proc)
    /\ Succeeds(w)
    /\ UNCHANGED <<sidecars, closing, guard, scheduled, happened>>

-----------------------------------------------------------------------------
(* Closed windows, deleted workspaces, and the guard                       *)

Closes(w, step) == closing' = [closing EXCEPT ![w].step = step]

Kills(c) ==
    /\ Unlocked
    /\ procs' = Killed(procs, sidecars[c])
    /\ sidecars' = [sidecars EXCEPT ![c] = 0]

\* kill_sidecar_for_window, one lock after the other.
Close(w) ==
    /\ Happens /\ closing[w].step = "open"
    /\ closing' = [closing EXCEPT ![w] = [step |-> IF active[w] = NoCwd THEN "closed" ELSE "checks",
                                         cwd |-> active[w]]]
    /\ active' = [active EXCEPT ![w] = NoCwd]
    /\ UNCHANGED <<sidecars, restarting, procs, request, guard, scheduled, gui>>

CloseChecks(w) ==
    LET c == closing[w].cwd
        used == \E v \in Windows : active[v] = c
    IN  /\ closing[w].step = "checks"
        /\ Closes(w, IF used \/ c \in scheduled THEN "closed" ELSE "kills")
        /\ UNCHANGED <<sidecars, active, restarting, procs, request, guard, scheduled, gui, happened>>

CloseKills(w) ==
    /\ closing[w].step = "kills"
    /\ Kills(closing[w].cwd)
    /\ Closes(w, "closed")
    /\ UNCHANGED <<active, restarting, request, guard, scheduled, gui, happened>>

DeleteWorkspace(c) ==
    /\ Happens /\ c \in scheduled \ {Chat}
    /\ Kills(c)
    /\ scheduled' = scheduled \ {c}
    /\ UNCHANGED <<active, restarting, request, closing, guard, gui>>

\* start_scheduler_sidecar_guard, for one of the cwds it has found.
GuardSpawns(c) ==
    /\ guard = 0 /\ c \in scheduled \ {Chat} /\ Unlocked /\ sidecars[c] = 0
    /\ Len(procs) < MaxSpawns
    /\ procs' = Append(procs, NewProc(c, TRUE)) /\ guard' = Len(procs) + 1
    /\ UNCHANGED <<sidecars, active, restarting, request, closing, scheduled, gui, happened>>

GuardInserts ==
    /\ guard # 0 /\ Unlocked
    /\ procs' = Reading(Entered(guard), guard)
    /\ sidecars' = [sidecars EXCEPT ![procs[guard].cwd] = guard]
    /\ guard' = 0
    /\ UNCHANGED <<active, restarting, request, closing, scheduled, gui, happened>>

-----------------------------------------------------------------------------
(* Processes and their reader threads                                      *)

Exits(p) ==
    /\ ~Dead(p)
    /\ IF procs[p].stdin THEN Happens ELSE UNCHANGED happened  \* a crash, or shutdown()
    /\ procs' = [procs EXCEPT ![p].run = "dead"]
    /\ UNCHANGED <<sidecars, active, restarting, request, closing, guard, scheduled, gui>>

\* The end of the output: whoever is in the map under this cwd is removed, and
\* waited for with the mutex held.
ReaderRemoves(p) ==
    LET c == procs[p].cwd
        q == sidecars[c]
    IN  /\ procs[p].reader = "reading" /\ Dead(p) /\ Unlocked
        /\ procs' = [Dropped(procs, q) EXCEPT ![p].reader = "telling",
                          ![p].reaps = IF q = 0 \/ Dead(q) THEN 0 ELSE q]
        /\ sidecars' = [sidecars EXCEPT ![c] = 0]
        /\ UNCHANGED <<active, restarting, request, closing, guard, scheduled, gui, happened>>

ReaderReaped(p) ==
    /\ procs[p].reaps # 0 /\ Dead(procs[p].reaps)
    /\ procs' = [procs EXCEPT ![p].reaps = 0]
    /\ UNCHANGED <<sidecars, active, restarting, request, closing, guard, scheduled, gui, happened>>

\* sidecar_exit, to every window of the active map; the guard's reader has none,
\* and none is sent for a cwd that is being restarted.
ExitHeard(w, c) ==
    IF gui[w].shows # c \/ ~gui[w].ready THEN gui[w]
    ELSE IF gui[w].hears /\ active[w] # NoCwd THEN [gui[w] EXCEPT !.ready = FALSE, !.hears = FALSE]
    ELSE [gui[w] EXCEPT !.unaware = TRUE]

ExitMissed(w, c) == [gui[w] EXCEPT !.unaware = @ \/ (gui[w].shows = c /\ gui[w].ready)]

ReaderTells(p) ==
    LET c == procs[p].cwd
        silent == procs[p].guarded \/ c \in restarting
    IN  /\ procs[p].reader = "telling" /\ procs[p].reaps = 0
        /\ procs' = [procs EXCEPT ![p].reader = "over"]
        /\ gui' = [w \in Windows |-> IF silent THEN ExitMissed(w, c) ELSE ExitHeard(w, c)]
        /\ UNCHANGED <<sidecars, active, restarting, request, closing, guard, scheduled, happened>>

-----------------------------------------------------------------------------
SidecarsInit ==
    /\ sidecars = [c \in Cwds |-> 0]
    /\ active = [w \in Windows |-> NoCwd]
    /\ restarting = {}
    /\ procs = <<>>
    /\ request = [w \in Windows |-> NoRequest]
    /\ closing = [w \in Windows |-> NotClosing]
    /\ guard = 0
    /\ scheduled \in SUBSET Cwds
    /\ gui = [w \in Windows |-> [shows |-> NoCwd, ready |-> FALSE, hears |-> FALSE,
                                 unaware |-> FALSE, strayed |-> FALSE]]
    /\ happened = 0

SidecarsNext ==
    \/ \E w \in Windows :
          \/ \E c \in Cwds : CallInit(w, c)
          \/ CallRestart(w) \/ RestartReaps(w)
          \/ InitChecks(w) \/ InitJoins(w) \/ InitAsks(w) \/ InitInserts(w) \/ InitActivates(w)
          \/ Close(w) \/ CloseChecks(w) \/ CloseKills(w)
          \/ Listens(w)
    \/ \E c \in Cwds : DeleteWorkspace(c) \/ GuardSpawns(c)
    \/ GuardInserts
    \/ \E p \in Procs : Exits(p) \/ ReaderRemoves(p) \/ ReaderReaped(p) \/ ReaderTells(p)

SidecarsSpec == SidecarsInit /\ [][SidecarsNext]_sidecarVars

-----------------------------------------------------------------------------
(* Properties                                                              *)

SidecarsTypeOK ==
    /\ procs \in Seq(Proc) /\ Len(procs) <= MaxSpawns
    /\ sidecars \in [Cwds -> {0} \cup Procs] /\ guard \in {0} \cup Procs
    /\ active \in [Windows -> Cwds \cup {NoCwd}]
    /\ restarting \subseteq Cwds /\ scheduled \subseteq Cwds
    /\ \A w \in Windows :
          /\ request[w].step \in {"idle", "reaps", "checks", "joins", "asks", "inserts", "activates"}
          /\ request[w].proc \in {0} \cup Procs /\ request[w].restart \in BOOLEAN
          /\ closing[w].step \in {"open", "checks", "kills", "closed"}
    /\ gui \in [Windows -> Window] /\ happened \in 0 .. MaxEvents

InHand(p) == guard = p \/ \E w \in Windows : request[w].proc = p

\* Its reader thread runs, or is about to be started.
Watched(p) ==
    \/ procs[p].reader \in {"reading", "telling"}
    \/ \E w \in Windows : request[w].proc = p /\ request[w].step = "activates"

\* A process whose input is open is in the map or will be put there: none is
\* left running, with a scheduler of its own, when its entry is replaced or
\* removed (HashMap::insert, remove).
NoneForgotten ==
    \A p \in Procs : ~Dead(p) /\ procs[p].stdin => sidecars[procs[p].cwd] = p \/ InHand(p)

\* A dead process does not stay in the map, where init_sidecar would join it and
\* fail again and again: its reader has still to come by.
DeadIsRemoved ==
    \A p \in Procs : Dead(p) /\ sidecars[procs[p].cwd] = p => procs[p].reader = "reading" \/ InHand(p)

\* A window that believes in its sidecar has one, or will hear of its end; except
\* after an end that came before it subscribed, that a restart by another window
\* suppressed, or of which only the guard's reader knew.
ExitIsTold ==
    \A w \in Windows :
        MayCall(w) /\ gui[w].ready /\ gui[w].hears /\ ~gui[w].unaware =>
            \/ sidecars[gui[w].shows] # 0
            \/ \E p \in Procs : procs[p].cwd = gui[w].shows /\ Watched(p)

\* A command goes to the workspace the window shows (App.tsx:124), except after a
\* switch that failed when the bridge had already switched.
RoutedWhereShown ==
    \A w \in Windows : MayCall(w) /\ gui[w].ready /\ ~gui[w].strayed => active[w] = gui[w].shows

\* What the desktop keeps of its sidecars, whatever windows, the guard and dying
\* processes do at the same time.
SidecarsKept == NoneForgotten /\ DeadIsRemoved /\ ExitIsTold /\ RoutedWhereShown
=============================================================================
