------------------------------ MODULE MainLock ------------------------------
(***************************************************************************)
(* acquireMainLock (src/core/main-agent.ts): the `.lock' file by which the  *)
(* main agent is meant to run once.  Agents are operating system processes; *)
(* an action is one system call, and anything may happen between two calls  *)
(* of one process, its death included.                                      *)
(*                                                                         *)
(* Left out: errors other than EEXIST and ENOENT, and a process id that is  *)
(* used again by another program after its owner died.                      *)
(***************************************************************************)
EXTENDS Naturals, FiniteSets

CONSTANTS Agents, NoAgent

\* A pid is none of the states of a file without one.
ASSUME MainLockAssumption == NoAgent \notin Agents /\ {"empty", "absent"} \cap Agents = {}

VARIABLES
    lockFile,   \* the content of .lock: a pid, "empty", or "absent"
    agent,      \* where each process is in acquireMainLock, and afterwards
    unlinked,   \* agents writing to a file that has been removed under them
    settled     \* history: the owner whose file each agent found when it came, while it stands

mainLockVars == <<lockFile, agent, unlinked, settled>>

Stages == {"away", "create", "created", "exists", "read", "truncate", "overwrite", "owner",
           "release", "remove", "refused", "dead"}

AgentAlive(p) == agent[p] \notin {"away", "dead"}

\* The handle has been returned and not released.
Owners == {p \in Agents : agent[p] = "owner"}

Goes(p, stage) == agent' = [agent EXCEPT ![p] = stage]

\* The file has changed: no owner has held it undisturbed since an agent came.
Disturbed == settled' = [p \in Agents |-> NoAgent]

-----------------------------------------------------------------------------
(* Acquiring                                                               *)

Come(p) ==
    /\ agent[p] = "away" /\ Goes(p, "create")
    /\ settled' = [settled EXCEPT ![p] = IF lockFile \in Owners THEN lockFile ELSE NoAgent]
    /\ UNCHANGED <<lockFile, unlinked>>

\* writeFileSync with flag "wx" opens the file exclusively, then writes to it.
CreateLock(p) ==
    /\ agent[p] = "create"
    /\ IF lockFile = "absent"
       THEN lockFile' = "empty" /\ Goes(p, "created") /\ Disturbed
       ELSE Goes(p, "exists") /\ UNCHANGED <<lockFile, settled>>
    /\ UNCHANGED unlinked

\* The processes that have opened the file and have yet to write to it.
Writers == {q \in Agents : agent[q] \in {"created", "overwrite"}}

\* What a process writes to a file removed since it opened it is lost.
WritePid(p) ==
    /\ agent[p] \in {"created", "overwrite"}
    /\ Goes(p, IF agent[p] = "created" THEN "exists" ELSE "owner")
    /\ lockFile' = IF p \in unlinked THEN lockFile ELSE p
    /\ unlinked' = unlinked \ {p}
    /\ IF lockFile' = lockFile THEN UNCHANGED settled ELSE Disturbed

\* existsSync: without a file there is nothing to reclaim.
LockExists(p) ==
    /\ agent[p] = "exists"
    /\ Goes(p, IF lockFile = "absent" THEN "owner" ELSE "read")
    /\ UNCHANGED <<lockFile, unlinked, settled>>

\* Bug: the owner is not asked whether it lives.
TakenByAnyone(p) == FALSE
TakenByOther(p) == lockFile \in Agents \ {p} /\ AgentAlive(lockFile)

\* readFileSync, parseInt and isProcessAlive: an empty or missing file has no owner.
ReadOwner(p) ==
    /\ agent[p] = "read"
    /\ Goes(p, IF TakenByOther(p) THEN "refused" ELSE "truncate")
    /\ UNCHANGED <<lockFile, unlinked, settled>>

\* writeFileSync without "wx" creates or truncates, then writes.
TruncateLock(p) ==
    /\ agent[p] = "truncate"
    /\ lockFile' = "empty" /\ Goes(p, "overwrite") /\ Disturbed
    /\ UNCHANGED unlinked

-----------------------------------------------------------------------------
(* Releasing, ending                                                       *)

\* release(): on exit and on signals.  The file is read, and removed if it names us.
ReleaseLock(p) ==
    /\ agent[p] = "owner" /\ Goes(p, "release")
    /\ UNCHANGED <<lockFile, unlinked, settled>>

ReadOwn(p) ==
    /\ agent[p] = "release"
    /\ Goes(p, IF lockFile = p THEN "remove" ELSE "dead")
    /\ UNCHANGED <<lockFile, unlinked, settled>>

RemoveLock(p) ==
    /\ agent[p] = "remove"
    /\ lockFile' = "absent" /\ Goes(p, "dead") /\ Disturbed
    /\ unlinked' = unlinked \cup Writers

\* SIGKILL, a crash; or the exit of a process that was refused.
Crash(p) ==
    /\ AgentAlive(p) /\ Goes(p, "dead")
    /\ unlinked' = unlinked \ {p}
    /\ settled' = [q \in Agents |-> IF settled[q] = p \/ q = p THEN NoAgent ELSE settled[q]]
    /\ UNCHANGED lockFile

MainLockInit ==
    /\ lockFile = "absent" /\ unlinked = {}
    /\ agent = [p \in Agents |-> "away"] /\ settled = [p \in Agents |-> NoAgent]

MainLockNext ==
    \E p \in Agents :
        \/ Come(p) \/ CreateLock(p) \/ WritePid(p) \/ LockExists(p) \/ ReadOwner(p)
        \/ TruncateLock(p) \/ ReleaseLock(p) \/ ReadOwn(p) \/ RemoveLock(p) \/ Crash(p)

MainLockSpec == MainLockInit /\ [][MainLockNext]_mainLockVars

-----------------------------------------------------------------------------
(* Properties                                                              *)

MainLockTypeOK ==
    /\ lockFile \in Agents \cup {"empty", "absent"}
    /\ agent \in [Agents -> Stages]
    /\ unlinked \subseteq {p \in Agents : agent[p] \in {"created", "overwrite"}}
    /\ settled \in [Agents -> Agents \cup {NoAgent}]

\* main-agent.ts:315: "Returns a lock handle on success, or null if another
\* live instance holds it": two live agents never both hold the handle.
OneOwner == Cardinality(Owners) <= 1

\* An owner whose pid was in the file when another agent came, and has stayed
\* there, is neither joined nor overwritten by that agent: two owners can only
\* come from acquisitions (or a release) that overlapped.
SettledOwnerIsAlone ==
    \A p \in Agents : settled[p] # NoAgent => agent[p] \notin {"owner", "truncate", "overwrite"}

=============================================================================
