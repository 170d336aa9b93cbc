------------------------------ MODULE MCParts ------------------------------
(***************************************************************************)
(* The parts that share no state with one another, checked side by side:    *)
(* a behaviour picks one of them, and the others stay as they began.        *)
(***************************************************************************)
EXTENDS SessionLocks, EventStore, MainLock, MutationQueue, AuthStorage,
        SettingsManager, Compaction, Packages, TLC

CONSTANTS
    t1, t2, t3, s1, s2,         \* tasks and sessions
    p1, p2, k1,                 \* processes on one event store, an idempotency key
    a1, a2, a3,                 \* would-be main agents
    c1, c2, c3, c4,             \* calls of the file tools
    i1, i2, o1, o2,             \* program instances and OAuth providers
    m1, m2, f1, f2,             \* settings managers and fields
    x1, x2, k2, k3              \* programs, a package of git and one of npm

VARIABLE part

-----------------------------------------------------------------------------
(* The instances                                                           *)

MCTasks == {t1, t2, t3}
MCSessions == {s1, s2}
MCObjects == {[id |-> t1, timed |-> TRUE], [id |-> t1, timed |-> FALSE],
              [id |-> t2, timed |-> TRUE], [id |-> t3, timed |-> FALSE]}

MCProcesses == {p1, p2}
MCMade == (p1 :> 2) @@ (p2 :> 1)
MCSubs == (p1 :> 2) @@ (p2 :> 0)

MCAgents == {a1, a2, a3}

\* A write and three edits, over a symbolic link and over the path it stands for.
MCToolCalls == {c1, c2, c3, c4}
MCEdits == {c2, c3, c4}
MCPaths == (c1 :> "link") @@ (c2 :> "real") @@ (c3 :> "link") @@ (c4 :> "real")
MCTurns == (c1 :> 1) @@ (c2 :> 1) @@ (c3 :> 2) @@ (c4 :> 2)

MCInstances == {i1, i2}
MCProviders == {o1, o2}
MCManagers == {m1, m2}
MCFields == {f1, f2}
MCPrograms == {x1, x2}
MCDirs == {<<k2, "user">>, <<k2, "project">>, <<k3, "user">>}

\* The two of each kind are alike; they are swapped together.
Swap(x, y) == (x :> y) @@ (y :> x)
Stay(S) == [x \in S |-> x]
SwapUsers == Swap(s1, s2) @@ Swap(i1, i2) @@ Swap(m1, m2) @@ Swap(x1, x2)
SwapNames == Swap(o1, o2) @@ Swap(f1, f2)
MCSymmetry == {Stay(DOMAIN SwapUsers), SwapUsers} \cup {Stay(DOMAIN SwapNames), SwapNames}

-----------------------------------------------------------------------------
\* Where a part may begin in several ways, it begins in one while another moves.
PartsInit ==
    /\ part \in {"locks", "events", "agent", "files", "credentials",
                "settings", "compaction", "packages"}
    /\ LocksInit /\ EventStoreInit /\ MainLockInit /\ MutationInit /\ AuthInit
    /\ SettingsInit /\ CompactionInit /\ PackagesInit
    /\ part # "files" => content = {}
    /\ part # "packages" => configured = NoPins
    /\ part # "settings" => settingsFile = NoFile
    /\ part # "compaction" => log = <<>>

Moves(name, Next, v) == IF part = name THEN Next ELSE UNCHANGED v

PartsNext ==
    /\ UNCHANGED part
    /\ Moves("locks", LocksNext, locks)
    /\ Moves("events", EventStoreNext, evars)
    /\ Moves("agent", MainLockNext, mainLockVars)
    /\ Moves("files", MutationNext, mutationVars)
    /\ Moves("credentials", AuthNext, authVars)
    /\ Moves("settings", SettingsNext, settingsVars)
    /\ Moves("compaction", CompactionNext, compactionVars)
    /\ Moves("packages", PackagesNext, packageVars)

PartsVars == <<part, locks, evars, mainLockVars, mutationVars, authVars,
               settingsVars, compactionVars, packageVars>>

PartsSpec == PartsInit /\ [][PartsNext]_PartsVars

\* The shape of the state of every part; of the locks see LocksSound.
PartsTypeOK ==
    /\ EventStoreTypeOK /\ MainLockTypeOK /\ MutationTypeOK /\ AuthTypeOK
    /\ SettingsTypeOK /\ CompactionTypeOK /\ PackagesTypeOK
=============================================================================
